---- MODULE Spec2Model ----
(***************************************************************************)
(* generate_feed of src/custom_feed.py as a state machine.                 *)
(*                                                                         *)
(* One call of generate_feed is followed from its entry to its return or   *)
(* to the exception that ends it.  The steps are the statements of the     *)
(* function body: the Counter over the authors (line 80), the filter       *)
(* (line 83), one iteration of the scoring loop (lines 86-95) and the      *)
(* final sorted(...) (line 98).                                            *)
(*                                                                         *)
(* Objects.  A Python list holds references.  The dicts of the posts live  *)
(* in heap, and posts, relevant_posts and result are lists of references   *)
(* into it, so that one dict may be listed twice.                          *)
(*                                                                         *)
(* Numbers.  A Python float is an IEEE 754 double.  A double is modelled   *)
(* as [m, e], the number m * 2^e with m an integer of exactly 53 bits (or  *)
(* no bits for 0.0), and m is written as the list of its digits in base    *)
(* 2^13, lowest first.  *, +, - and / on doubles round to nearest, ties to *)
(* even, as the hardware does.  x ** 1.2 is tabulated for x a multiple of  *)
(* 1/60 up to 6; it has no value in the model for another x >= 0.  For     *)
(* x < 0 it is a complex number in Python 3, and of a complex number only  *)
(* the fact that it is one is kept (cx).  Times are whole seconds.         *)
(***************************************************************************)
EXTENDS Integers, Sequences, FiniteSets, TLC

VARIABLES
    posts,               \* the caller's list: references to post dicts
    heap,                \* the post dicts, by reference
    user_follows,        \* set of followed authors
    interaction_history, \* dict author -> count
    trending_hashtags,   \* set of hashtags
    format_preferences,  \* dict content_format -> weight
    clock,               \* the last value time.time() returned
    pc,                  \* position in the body of generate_feed
    author_frequency,    \* the Counter of line 80
    relevant_posts,      \* the list of line 83: references
    idx,                 \* position of the for loop in relevant_posts
    result,              \* the returned list: references
    error,               \* the exception that ended the call, or "none"
    supplied,            \* posts and heap as they were when the call began
    scored               \* per dict: the number of assignments of final_score,
                         \* and of the last one the factors of lines 87-95
                         \* and the value time.time() returned

vars == <<posts, heap, user_follows, interaction_history, trending_hashtags,
          format_preferences, clock, pc, author_frequency, relevant_posts,
          idx, result, error, supplied, scored>>

-----------------------------------------------------------------------------
(* Bounds of the model *)

\* longest list of well-formed posts
MaxPosts == 3
\* longest list of posts when one of them may lack a field
MaxBadPosts == 2
\* longest list of posts in the runs about one author posting many times
MaxLong == 6
\* the most posts of one author in a list
MaxCrowd == 52
\* the most hours the clock may advance during one call
MaxDrift == 1

-----------------------------------------------------------------------------
(* Python dict and list helpers *)

\* dict.get(key, default)
Get(d, key, default) == IF key \in DOMAIN d THEN d[key] ELSE default

\* d[key] = value on a dict
SetItem(d, key, value) ==
    [f \in DOMAIN d \cup {key} |-> IF f = key THEN value ELSE d[f]]

\* a dict without one of its keys
Without(d, key) == [f \in DOMAIN d \ {key} |-> d[f]]

\* set(list)
ToSet(s) == {s[i] : i \in DOMAIN s}

Reverse(s) == [i \in 1..Len(s) |-> s[Len(s) + 1 - i]]

SeqUpTo(S, n) == UNION {[1..m -> S] : m \in 0..n}

-----------------------------------------------------------------------------
(* Natural numbers of any size: lists of digits in base 2^13, lowest       *)
(* first, without leading zeros.  They carry the exact results that the    *)
(* float operations round.                                                 *)

Base == 2 ^ 13

Rest(a) == IF a = <<>> THEN <<>> ELSE Tail(a)

First(a) == IF a = <<>> THEN 0 ELSE Head(a)

\* a without its leading zeros
BNorm(a) ==
    SubSeq(a, 1, Cardinality({i \in DOMAIN a : \E j \in i..Len(a) : a[j] # 0}))

RECURSIVE BFromInt(_)
BFromInt(n) == IF n = 0 THEN <<>> ELSE <<n % Base>> \o BFromInt(n \div Base)

RECURSIVE BAddC(_, _, _)
BAddC(a, b, c) ==
    IF a = <<>> /\ b = <<>> THEN (IF c = 0 THEN <<>> ELSE <<c>>)
    ELSE LET x == First(a) + First(b) + c
         IN  <<x % Base>> \o BAddC(Rest(a), Rest(b), x \div Base)

BAdd(a, b) == BAddC(a, b, 0)

RECURSIVE BSubB(_, _, _)
BSubB(a, b, c) ==
    IF a = <<>> THEN <<>>
    ELSE LET x == Head(a) - First(b) - c
         IN  <<x % Base>> \o BSubB(Tail(a), Rest(b), IF x < 0 THEN 1 ELSE 0)

\* a - b for a >= b
BSub(a, b) == BNorm(BSubB(a, b, 0))

\* -1, 0 or 1 as a is less than, equal to or greater than b: the top digit
\* in which they differ decides
BCmp(a, b) ==
    IF Len(a) < Len(b) THEN -1
    ELSE IF Len(a) > Len(b) THEN 1
    ELSE IF a = b THEN 0
    ELSE LET k == CHOOSE i \in DOMAIN a :
                      a[i] # b[i] /\ \A j \in (i + 1)..Len(a) : a[j] = b[j]
         IN  IF a[k] < b[k] THEN -1 ELSE 1

RECURSIVE BMulSmallC(_, _, _)
BMulSmallC(a, d, c) ==
    IF a = <<>> THEN (IF c = 0 THEN <<>> ELSE <<c>>)
    ELSE LET x == Head(a) * d + c
         IN  <<x % Base>> \o BMulSmallC(Tail(a), d, x \div Base)

\* a * d for one digit d
BMulSmall(a, d) == IF d = 0 THEN <<>> ELSE BMulSmallC(a, d, 0)

RECURSIVE BMul(_, _)
BMul(a, b) ==
    IF a = <<>> \/ b = <<>> THEN <<>>
    ELSE LET hi == BMul(a, Tail(b))
         IN  IF hi = <<>> THEN BMulSmall(a, Head(b))
             ELSE BAdd(BMulSmall(a, Head(b)), <<0>> \o hi)

\* a * 2^n: whole digits of zeros below, and each digit takes the bits
\* that the digit under it sheds
BShl(a, n) ==
    IF a = <<>> THEN <<>>
    ELSE LET cut == 2 ^ (13 - (n % 13))
             top == a[Len(a)] \div cut
             digit(i) == (a[i] % cut) * 2 ^ (n % 13)
                             + (IF i > 1 THEN a[i - 1] \div cut ELSE 0)
         IN  [i \in 1..(n \div 13) |-> 0] \o [i \in 1..Len(a) |-> digit(i)]
                 \o (IF top = 0 THEN <<>> ELSE <<top>>)

\* a divided by 2^n, rounded down
BShr(a, n) ==
    IF n \div 13 >= Len(a) THEN <<>>
    ELSE LET k == n \div 13
             cut == 2 ^ (n % 13)
             digit(i) == a[i + k] \div cut
                             + (IF i + k < Len(a)
                                THEN (a[i + k + 1] % cut) * 2 ^ (13 - (n % 13))
                                ELSE 0)
         IN  BNorm([i \in 1..(Len(a) - k) |-> digit(i)])

\* the number of bits of x, 0 <= x < 2^30
IBitLen(x) == CHOOSE n \in 0..30 : x < 2 ^ n /\ (n = 0 \/ x >= 2 ^ (n - 1))

\* the number of bits of a
BBitLen(a) == IF a = <<>> THEN 0 ELSE 13 * (Len(a) - 1) + IBitLen(a[Len(a)])

BOdd(a) == a # <<>> /\ a[1] % 2 = 1

\* the largest digit d in lo..hi with b * d <= rem
RECURSIVE BDigit(_, _, _, _)
BDigit(rem, b, lo, hi) ==
    IF lo = hi THEN lo
    ELSE LET mid == (lo + hi + 1) \div 2
         IN  IF BCmp(BMulSmall(b, mid), rem) <= 0
             THEN BDigit(rem, b, mid, hi)
             ELSE BDigit(rem, b, lo, mid - 1)

\* the next digit of a long division by b, whose top digit is at least
\* Base / 2, when rem < b * Base: the quotient of the top two digits of rem
\* by the top digit of b is that digit or up to two more (Knuth, The Art of
\* Computer Programming, 4.3.1, Theorem B)
BQuotDigit(rem, b) ==
    LET n == Len(b)
        top == (IF Len(rem) > n THEN rem[n + 1] * Base ELSE 0)
                   + (IF Len(rem) >= n THEN rem[n] ELSE 0)
        est == top \div b[n]
        hi == IF est > Base - 1 THEN Base - 1 ELSE est
        lo == IF hi < 2 THEN 0 ELSE hi - 2
    IN  BDigit(rem, b, lo, hi)

\* long division from digit i of a downwards, where q and r are the
\* quotient and the remainder of the digits above i
RECURSIVE BDivStep(_, _, _, _, _)
BDivStep(a, b, i, q, r) ==
    IF i = 0 THEN [q |-> q, r |-> r]
    ELSE LET rem == BNorm(<<a[i]>> \o r)
             d == BQuotDigit(rem, b)
         IN  IF d = 0 THEN BDivStep(a, b, i - 1, <<0>> \o q, rem)
             ELSE BDivStep(a, b, i - 1, <<d>> \o q,
                           BSub(rem, BMulSmall(b, d)))

\* quotient (leading zeros kept) and remainder of a by b, b > 0; both are
\* scaled by the power of two that fills the top digit of b
BDiv(a, b) ==
    LET s == 13 - IBitLen(b[Len(b)])
        x == BShl(a, s)
        y == BShl(b, s)
        n == IF Len(x) < Len(y) THEN 0 ELSE Len(x) - Len(y) + 1
        d == BDivStep(x, y, n, <<>>, SubSeq(x, n + 1, Len(x)))
    IN  [q |-> d.q, r |-> BShr(d.r, s)]

-----------------------------------------------------------------------------
(* Python floats.  The operands are doubles that are not negative; the     *)
(* one operation of the program that may give a negative result is the     *)
(* subtraction of line 76, and its result carries a sign.                   *)

\* 0.0
FZero == [m |-> <<>>, e |-> 0]

\* the double nearest to M * 2^E, ties to even; sticky tells that the exact
\* value is a little more than M * 2^E
FRound(M, E, sticky) ==
    LET bits == BBitLen(M)
    IN  IF bits = 0 THEN FZero
        ELSE IF bits <= 53
        THEN [m |-> BShl(M, 53 - bits), e |-> E - (53 - bits)]
        ELSE LET s == bits - 53
                 q == BShr(M, s)
                 r == BSub(M, BShl(q, s))
                 c == BCmp(r, BShl(<<1>>, s - 1))
                 up == c > 0 \/ (c = 0 /\ (sticky \/ BOdd(q)))
                 q1 == IF up THEN BAdd(q, <<1>>) ELSE q
             IN  IF BBitLen(q1) = 54
                 THEN [m |-> BShr(q1, 1), e |-> E + s + 1]
                 ELSE [m |-> q1, e |-> E + s]

\* float(n) for an int n >= 0
FFromInt(n) == FRound(BFromInt(n), 0, FALSE)

\* a * b
FMul(a, b) == FRound(BMul(a.m, b.m), a.e + b.e, FALSE)

\* a + b
FAdd(a, b) ==
    IF a.m = <<>> THEN [m |-> b.m, e |-> b.e]
    ELSE IF b.m = <<>> THEN [m |-> a.m, e |-> a.e]
    ELSE LET e == IF a.e < b.e THEN a.e ELSE b.e
         IN  FRound(BAdd(BShl(a.m, a.e - e), BShl(b.m, b.e - e)), e, FALSE)

\* a - b: a float with its sign
FSub(a, b) ==
    LET e == IF a.e < b.e THEN a.e ELSE b.e
        x == BShl(a.m, a.e - e)
        y == BShl(b.m, b.e - e)
        neg == BCmp(x, y) < 0
        r == FRound(IF neg THEN BSub(y, x) ELSE BSub(x, y), e, FALSE)
    IN  [neg |-> neg, m |-> r.m, e |-> r.e]

\* a / b; the divisor is looked at first, and a / 0.0 (ZeroDivisionError
\* in Python) has no value
FDiv(a, b) ==
    IF b.m = <<>> THEN CHOOSE x \in {} : TRUE
    ELSE IF a.m = <<>> THEN FZero
    ELSE LET d == BDiv(BShl(a.m, 65), b.m)
         IN  FRound(BNorm(d.q), a.e - 65 - b.e, d.r # <<>>)

\* a < b
FLess(a, b) ==
    IF b.m = <<>> THEN FALSE
    ELSE IF a.m = <<>> THEN TRUE
    ELSE a.e < b.e \/ (a.e = b.e /\ BCmp(a.m, b.m) < 0)

\* max(a, b)
FMax(a, b) == IF FLess(a, b) THEN b ELSE a

\* the literals 1.8, 1.4, 4.5, 0.02 and 0.9 of lines 40-43 and 76-77, and 1.0
F1_8 == [m |-> <<3277, 1638, 4915, 6553, 1>>, e |-> -52]

F1_4 == [m |-> <<1638, 4915, 6553, 3276, 1>>, e |-> -52]

F4_5 == [m |-> <<0, 0, 0, 1024, 1>>, e |-> -50]

F0_02 == [m |-> <<5243, 7536, 6225, 2293, 1>>, e |-> -58]

F0_9 == [m |-> <<3277, 1638, 4915, 6553, 1>>, e |-> -53]

FOne == [m |-> <<0, 0, 0, 0, 1>>, e |-> -52]

\* a complex number
Complex == [cx |-> TRUE, m |-> <<>>, e |-> 0]

\* a float among the values that may be complex
Real(x) == [cx |-> FALSE, m |-> x.m, e |-> x.e]

-----------------------------------------------------------------------------
(* Time *)

\* seconds per hour, the divisor of line 68
Hour == 3600

\* time.time() when the call begins
Now0 == 2 * Hour

\* the values a later time.time() may return: the clock does not go back
ClockReads(c) == {t \in {c, c + Hour} : t <= Now0 + MaxDrift * Hour}

\* h ** 1.2 for h = s / 3600 and s = 0, 60, 120, ..., 21600 seconds, as the
\* C library computes it
Pow12 == {
    [h |-> [m |-> <<>>, e |-> 0], p |-> [m |-> <<>>, e |-> 0]],
    [h |-> [m |-> <<4369, 2184, 1092, 546, 1>>, e |-> -58], p |-> [m |-> <<5226, 6926, 5112, 7219, 1>>, e |-> -60]],
    [h |-> [m |-> <<4369, 2184, 1092, 546, 1>>, e |-> -57], p |-> [m |-> <<7723, 5140, 5354, 659, 1>>, e |-> -58]],
    [h |-> [m |-> <<6554, 3276, 1638, 4915, 1>>, e |-> -57], p |-> [m |-> <<6532, 1264, 432, 6207, 1>>, e |-> -58]],
    [h |-> [m |-> <<4369, 2184, 1092, 546, 1>>, e |-> -56], p |-> [m |-> <<3822, 6286, 7208, 1975, 1>>, e |-> -57]],
    [h |-> [m |-> <<5461, 2730, 5461, 2730, 1>>, e |-> -56], p |-> [m |-> <<4082, 5626, 7551, 5097, 1>>, e |-> -57]],
    [h |-> [m |-> <<6554, 3276, 1638, 4915, 1>>, e |-> -56], p |-> [m |-> <<2554, 8133, 688, 78, 1>>, e |-> -56]],
    [h |-> [m |-> <<7646, 3822, 6007, 7099, 1>>, e |-> -56], p |-> [m |-> <<5067, 4632, 4315, 1758, 1>>, e |-> -56]],
    [h |-> [m |-> <<4369, 2184, 1092, 546, 1>>, e |-> -55], p |-> [m |-> <<3122, 6610, 6774, 3487, 1>>, e |-> -56]],
    [h |-> [m |-> <<4915, 6553, 3276, 1638, 1>>, e |-> -55], p |-> [m |-> <<7108, 6957, 74, 5261, 1>>, e |-> -56]],
    [h |-> [m |-> <<5461, 2730, 5461, 2730, 1>>, e |-> -55], p |-> [m |-> <<559, 1598, 912, 7074, 1>>, e |-> -56]],
    [h |-> [m |-> <<6007, 7099, 7645, 3822, 1>>, e |-> -55], p |-> [m |-> <<6690, 3929, 7767, 365, 1>>, e |-> -55]],
    [h |-> [m |-> <<6554, 3276, 1638, 4915, 1>>, e |-> -55], p |-> [m |-> <<2982, 6615, 6815, 1307, 1>>, e |-> -55]],
    [h |-> [m |-> <<7100, 7645, 3822, 6007, 1>>, e |-> -55], p |-> [m |-> <<4397, 7065, 4604, 2265, 1>>, e |-> -55]],
    [h |-> [m |-> <<7646, 3822, 6007, 7099, 1>>, e |-> -55], p |-> [m |-> <<3116, 5555, 1259, 3238, 1>>, e |-> -55]],
    [h |-> [m |-> <<0, 0, 0, 0, 1>>, e |-> -54], p |-> [m |-> <<3677, 7573, 6144, 4224, 1>>, e |-> -55]],
    [h |-> [m |-> <<4369, 2184, 1092, 546, 1>>, e |-> -54], p |-> [m |-> <<50, 2839, 4899, 5224, 1>>, e |-> -55]],
    [h |-> [m |-> <<546, 4369, 2184, 1092, 1>>, e |-> -54], p |-> [m |-> <<2611, 4985, 245, 6237, 1>>, e |-> -55]],
    [h |-> [m |-> <<4915, 6553, 3276, 1638, 1>>, e |-> -54], p |-> [m |-> <<4601, 161, 3682, 7261, 1>>, e |-> -55]],
    [h |-> [m |-> <<1092, 546, 4369, 2184, 1>>, e |-> -54], p |-> [m |-> <<310, 4181, 5407, 52, 1>>, e |-> -54]],
    [h |-> [m |-> <<5461, 2730, 5461, 2730, 1>>, e |-> -54], p |-> [m |-> <<7862, 494, 643, 576, 1>>, e |-> -54]],
    [h |-> [m |-> <<1638, 4915, 6553, 3276, 1>>, e |-> -54], p |-> [m |-> <<2074, 3362, 6220, 1104, 1>>, e |-> -54]],
    [h |-> [m |-> <<6007, 7099, 7645, 3822, 1>>, e |-> -54], p |-> [m |-> <<8070, 1236, 4104, 1638, 1>>, e |-> -54]],
    [h |-> [m |-> <<2185, 1092, 546, 4369, 1>>, e |-> -54], p |-> [m |-> <<2353, 6201, 970, 2177, 1>>, e |-> -54]],
    [h |-> [m |-> <<6554, 3276, 1638, 4915, 1>>, e |-> -54], p |-> [m |-> <<3692, 7776, 3615, 2720, 1>>, e |-> -54]],
    [h |-> [m |-> <<2731, 5461, 2730, 5461, 1>>, e |-> -54], p |-> [m |-> <<6519, 5785, 2556, 3268, 1>>, e |-> -54]],
    [h |-> [m |-> <<7100, 7645, 3822, 6007, 1>>, e |-> -54], p |-> [m |-> <<5555, 3388, 4787, 3820, 1>>, e |-> -54]],
    [h |-> [m |-> <<3277, 1638, 4915, 6553, 1>>, e |-> -54], p |-> [m |-> <<7125, 6185, 1001, 4377, 1>>, e |-> -54]],
    [h |-> [m |-> <<7646, 3822, 6007, 7099, 1>>, e |-> -54], p |-> [m |-> <<364, 271, 6544, 4937, 1>>, e |-> -54]],
    [h |-> [m |-> <<3823, 6007, 7099, 7645, 1>>, e |-> -54], p |-> [m |-> <<34, 5514, 4057, 5502, 1>>, e |-> -54]],
    [h |-> [m |-> <<0, 0, 0, 0, 1>>, e |-> -53], p |-> [m |-> <<288, 5855, 822, 6071, 1>>, e |-> -54]],
    [h |-> [m |-> <<2185, 1092, 546, 273, 1>>, e |-> -53], p |-> [m |-> <<641, 1071, 4174, 6643, 1>>, e |-> -54]],
    [h |-> [m |-> <<4369, 2184, 1092, 546, 1>>, e |-> -53], p |-> [m |-> <<5225, 6926, 5112, 7219, 1>>, e |-> -54]],
    [h |-> [m |-> <<6554, 3276, 1638, 819, 1>>, e |-> -53], p |-> [m |-> <<3688, 2846, 2877, 7799, 1>>, e |-> -54]],
    [h |-> [m |-> <<546, 4369, 2184, 1092, 1>>, e |-> -53], p |-> [m |-> <<5125, 7407, 2469, 95, 1>>, e |-> -53]],
    [h |-> [m |-> <<2731, 5461, 2730, 1365, 1>>, e |-> -53], p |-> [m |-> <<7083, 2617, 5309, 388, 1>>, e |-> -53]],
    [h |-> [m |-> <<4915, 6553, 3276, 1638, 1>>, e |-> -53], p |-> [m |-> <<7036, 5810, 5537, 683, 1>>, e |-> -53]],
    [h |-> [m |-> <<7100, 7645, 3822, 1911, 1>>, e |-> -53], p |-> [m |-> <<4478, 617, 2848, 980, 1>>, e |-> -53]],
    [h |-> [m |-> <<1092, 546, 4369, 2184, 1>>, e |-> -53], p |-> [m |-> <<6495, 3283, 5140, 1278, 1>>, e |-> -53]],
    [h |-> [m |-> <<3277, 1638, 4915, 2457, 1>>, e |-> -53], p |-> [m |-> <<7531, 4446, 3944, 1578, 1>>, e |-> -53]],
    [h |-> [m |-> <<5461, 2730, 5461, 2730, 1>>, e |-> -53], p |-> [m |-> <<7658, 1910, 7187, 1879, 1>>, e |-> -53]],
    [h |-> [m |-> <<7646, 3822, 6007, 3003, 1>>, e |-> -53], p |-> [m |-> <<5924, 1433, 6423, 2182, 1>>, e |-> -53]],
    [h |-> [m |-> <<1638, 4915, 6553, 3276, 1>>, e |-> -53], p |-> [m |-> <<4804, 1818, 1410, 2487, 1>>, e |-> -53]],
    [h |-> [m |-> <<3823, 6007, 7099, 3549, 1>>, e |-> -53], p |-> [m |-> <<1973, 5191, 108, 2793, 1>>, e |-> -53]],
    [h |-> [m |-> <<6007, 7099, 7645, 3822, 1>>, e |-> -53], p |-> [m |-> <<233, 3242, 2296, 3100, 1>>, e |-> -53]],
    [h |-> [m |-> <<0, 0, 0, 4096, 1>>, e |-> -53], p |-> [m |-> <<1129, 4910, 7760, 3408, 1>>, e |-> -53]],
    [h |-> [m |-> <<2185, 1092, 546, 4369, 1>>, e |-> -53], p |-> [m |-> <<2229, 7154, 8104, 3718, 1>>, e |-> -53]],
    [h |-> [m |-> <<4369, 2184, 1092, 4642, 1>>, e |-> -53], p |-> [m |-> <<5980, 7068, 3132, 4030, 1>>, e |-> -53]],
    [h |-> [m |-> <<6554, 3276, 1638, 4915, 1>>, e |-> -53], p |-> [m |-> <<3541, 6153, 847, 4343, 1>>, e |-> -53]],
    [h |-> [m |-> <<546, 4369, 2184, 5188, 1>>, e |-> -53], p |-> [m |-> <<1721, 6703, 1067, 4657, 1>>, e |-> -53]],
    [h |-> [m |-> <<2731, 5461, 2730, 5461, 1>>, e |-> -53], p |-> [m |-> <<6459, 285, 3618, 4972, 1>>, e |-> -53]],
    [h |-> [m |-> <<4915, 6553, 3276, 5734, 1>>, e |-> -53], p |-> [m |-> <<3690, 5625, 137, 5289, 1>>, e |-> -53]],
    [h |-> [m |-> <<7100, 7645, 3822, 6007, 1>>, e |-> -53], p |-> [m |-> <<3702, 220, 6848, 5606, 1>>, e |-> -53]],
    [h |-> [m |-> <<1092, 546, 4369, 6280, 1>>, e |-> -53], p |-> [m |-> <<7577, 7816, 7207, 5925, 1>>, e |-> -53]],
    [h |-> [m |-> <<3277, 1638, 4915, 6553, 1>>, e |-> -53], p |-> [m |-> <<2868, 5848, 1065, 6246, 1>>, e |-> -53]],
    [h |-> [m |-> <<5461, 2730, 5461, 6826, 1>>, e |-> -53], p |-> [m |-> <<5763, 5079, 4658, 6567, 1>>, e |-> -53]],
    [h |-> [m |-> <<7646, 3822, 6007, 7099, 1>>, e |-> -53], p |-> [m |-> <<1486, 6529, 1460, 6890, 1>>, e |-> -53]],
    [h |-> [m |-> <<1638, 4915, 6553, 7372, 1>>, e |-> -53], p |-> [m |-> <<7883, 7685, 7718, 7213, 1>>, e |-> -53]],
    [h |-> [m |-> <<3823, 6007, 7099, 7645, 1>>, e |-> -53], p |-> [m |-> <<6996, 667, 6916, 7538, 1>>, e |-> -53]],
    [h |-> [m |-> <<6007, 7099, 7645, 7918, 1>>, e |-> -53], p |-> [m |-> <<7272, 3267, 7115, 7864, 1>>, e |-> -53]],
    [h |-> [m |-> <<0, 0, 0, 0, 1>>, e |-> -52], p |-> [m |-> <<0, 0, 0, 0, 1>>, e |-> -52]],
    [h |-> [m |-> <<1092, 546, 4369, 136, 1>>, e |-> -52], p |-> [m |-> <<3675, 3063, 916, 164, 1>>, e |-> -52]],
    [h |-> [m |-> <<2185, 1092, 546, 273, 1>>, e |-> -52], p |-> [m |-> <<195, 355, 6248, 328, 1>>, e |-> -52]],
    [h |-> [m |-> <<3277, 1638, 4915, 409, 1>>, e |-> -52], p |-> [m |-> <<2035, 7697, 7745, 493, 1>>, e |-> -52]],
    [h |-> [m |-> <<4369, 2184, 1092, 546, 1>>, e |-> -52], p |-> [m |-> <<7722, 5140, 5354, 659, 1>>, e |-> -52]],
    [h |-> [m |-> <<5461, 2730, 5461, 682, 1>>, e |-> -52], p |-> [m |-> <<6693, 1914, 7212, 825, 1>>, e |-> -52]],
    [h |-> [m |-> <<6554, 3276, 1638, 819, 1>>, e |-> -52], p |-> [m |-> <<3345, 3105, 5074, 992, 1>>, e |-> -52]],
    [h |-> [m |-> <<7646, 3822, 6007, 955, 1>>, e |-> -52], p |-> [m |-> <<7012, 944, 7082, 1159, 1>>, e |-> -52]],
    [h |-> [m |-> <<546, 4369, 2184, 1092, 1>>, e |-> -52], p |-> [m |-> <<1918, 7088, 4993, 1327, 1>>, e |-> -52]],
    [h |-> [m |-> <<1638, 4915, 6553, 1228, 1>>, e |-> -52], p |-> [m |-> <<2857, 2998, 6953, 1495, 1>>, e |-> -52]],
    [h |-> [m |-> <<2731, 5461, 2730, 1365, 1>>, e |-> -52], p |-> [m |-> <<708, 5044, 4721, 1664, 1>>, e |-> -52]],
    [h |-> [m |-> <<3823, 6007, 7099, 1501, 1>>, e |-> -52], p |-> [m |-> <<4580, 6742, 6444, 1833, 1>>, e |-> -52]],
    [h |-> [m |-> <<4915, 6553, 3276, 1638, 1>>, e |-> -52], p |-> [m |-> <<3569, 2943, 3886, 2003, 1>>, e |-> -52]],
    [h |-> [m |-> <<6007, 7099, 7645, 1774, 1>>, e |-> -52], p |-> [m |-> <<7996, 5841, 5194, 2173, 1>>, e |-> -52]],
    [h |-> [m |-> <<7100, 7645, 3822, 1911, 1>>, e |-> -52], p |-> [m |-> <<3325, 3667, 2135, 2344, 1>>, e |-> -52]],
    [h |-> [m |-> <<0, 0, 0, 2048, 1>>, e |-> -52], p |-> [m |-> <<3068, 1309, 2859, 2515, 1>>, e |-> -52]],
    [h |-> [m |-> <<1092, 546, 4369, 2184, 1>>, e |-> -52], p |-> [m |-> <<2781, 3617, 7325, 2686, 1>>, e |-> -52]],
    [h |-> [m |-> <<2185, 1092, 546, 2321, 1>>, e |-> -52], p |-> [m |-> <<6582, 6907, 7302, 2858, 1>>, e |-> -52]],
    [h |-> [m |-> <<3277, 1638, 4915, 2457, 1>>, e |-> -52], p |-> [m |-> <<3404, 6870, 2752, 3031, 1>>, e |-> -52]],
    [h |-> [m |-> <<4369, 2184, 1092, 2594, 1>>, e |-> -52], p |-> [m |-> <<183, 6488, 1829, 3204, 1>>, e |-> -52]],
    [h |-> [m |-> <<5461, 2730, 5461, 2730, 1>>, e |-> -52], p |-> [m |-> <<6699, 7585, 4496, 3377, 1>>, e |-> -52]],
    [h |-> [m |-> <<6554, 3276, 1638, 2867, 1>>, e |-> -52], p |-> [m |-> <<6590, 2392, 2526, 3551, 1>>, e |-> -52]],
    [h |-> [m |-> <<7646, 3822, 6007, 3003, 1>>, e |-> -52], p |-> [m |-> <<6872, 6074, 4074, 3725, 1>>, e |-> -52]],
    [h |-> [m |-> <<546, 4369, 2184, 3140, 1>>, e |-> -52], p |-> [m |-> <<4736, 7358, 915, 3900, 1>>, e |-> -52]],
    [h |-> [m |-> <<1638, 4915, 6553, 3276, 1>>, e |-> -52], p |-> [m |-> <<5722, 1085, 1208, 4075, 1>>, e |-> -52]],
    [h |-> [m |-> <<2731, 5461, 2730, 3413, 1>>, e |-> -52], p |-> [m |-> <<6542, 4392, 4918, 4250, 1>>, e |-> -52]],
    [h |-> [m |-> <<3823, 6007, 7099, 3549, 1>>, e |-> -52], p |-> [m |-> <<3580, 7364, 3822, 4426, 1>>, e |-> -52]],
    [h |-> [m |-> <<4915, 6553, 3276, 3686, 1>>, e |-> -52], p |-> [m |-> <<6535, 5614, 6081, 4602, 1>>, e |-> -52]],
    [h |-> [m |-> <<6007, 7099, 7645, 3822, 1>>, e |-> -52], p |-> [m |-> <<4125, 109, 3472, 4779, 1>>, e |-> -52]],
    [h |-> [m |-> <<7100, 7645, 3822, 3959, 1>>, e |-> -52], p |-> [m |-> <<1092, 5187, 4155, 4956, 1>>, e |-> -52]],
    [h |-> [m |-> <<0, 0, 0, 4096, 1>>, e |-> -52], p |-> [m |-> <<226, 7436, 8102, 5133, 1>>, e |-> -52]],
    [h |-> [m |-> <<1092, 546, 4369, 4232, 1>>, e |-> -52], p |-> [m |-> <<8139, 6497, 7092, 5311, 1>>, e |-> -52]],
    [h |-> [m |-> <<2185, 1092, 546, 4369, 1>>, e |-> -52], p |-> [m |-> <<4456, 6726, 1096, 5490, 1>>, e |-> -52]],
    [h |-> [m |-> <<3277, 1638, 4915, 4505, 1>>, e |-> -52], p |-> [m |-> <<2692, 659, 6471, 5668, 1>>, e |-> -52]],
    [h |-> [m |-> <<4369, 2184, 1092, 4642, 1>>, e |-> -52], p |-> [m |-> <<3613, 1648, 6804, 5847, 1>>, e |-> -52]],
    [h |-> [m |-> <<5461, 2730, 5461, 4778, 1>>, e |-> -52], p |-> [m |-> <<2422, 2768, 2069, 6027, 1>>, e |-> -52]],
    [h |-> [m |-> <<6554, 3276, 1638, 4915, 1>>, e |-> -52], p |-> [m |-> <<6531, 1264, 432, 6207, 1>>, e |-> -52]],
    [h |-> [m |-> <<7646, 3822, 6007, 5051, 1>>, e |-> -52], p |-> [m |-> <<4391, 6625, 1866, 6387, 1>>, e |-> -52]],
    [h |-> [m |-> <<546, 4369, 2184, 5188, 1>>, e |-> -52], p |-> [m |-> <<6231, 7694, 6347, 6567, 1>>, e |-> -52]],
    [h |-> [m |-> <<1638, 4915, 6553, 5324, 1>>, e |-> -52], p |-> [m |-> <<7315, 5328, 5658, 6748, 1>>, e |-> -52]],
    [h |-> [m |-> <<2731, 5461, 2730, 5461, 1>>, e |-> -52], p |-> [m |-> <<2999, 4096, 7966, 6929, 1>>, e |-> -52]],
    [h |-> [m |-> <<3823, 6007, 7099, 5597, 1>>, e |-> -52], p |-> [m |-> <<4717, 3981, 5055, 7111, 1>>, e |-> -52]],
    [h |-> [m |-> <<4915, 6553, 3276, 5734, 1>>, e |-> -52], p |-> [m |-> <<6168, 284, 5094, 7293, 1>>, e |-> -52]],
    [h |-> [m |-> <<6007, 7099, 7645, 5870, 1>>, e |-> -52], p |-> [m |-> <<4651, 8101, 8058, 7475, 1>>, e |-> -52]],
    [h |-> [m |-> <<7100, 7645, 3822, 6007, 1>>, e |-> -52], p |-> [m |-> <<2430, 4886, 5735, 7658, 1>>, e |-> -52]],
    [h |-> [m |-> <<0, 0, 0, 6144, 1>>, e |-> -52], p |-> [m |-> <<3124, 4090, 6293, 7841, 1>>, e |-> -52]],
    [h |-> [m |-> <<1092, 546, 4369, 6280, 1>>, e |-> -52], p |-> [m |-> <<1903, 5924, 1518, 8025, 1>>, e |-> -52]],
    [h |-> [m |-> <<2185, 1092, 546, 6417, 1>>, e |-> -52], p |-> [m |-> <<500, 6829, 3886, 8, 1>>, e |-> -51]],
    [h |-> [m |-> <<3277, 1638, 4915, 6553, 1>>, e |-> -52], p |-> [m |-> <<141, 4483, 4326, 100, 1>>, e |-> -51]],
    [h |-> [m |-> <<4369, 2184, 1092, 6690, 1>>, e |-> -52], p |-> [m |-> <<1377, 500, 6164, 192, 1>>, e |-> -51]],
    [h |-> [m |-> <<5461, 2730, 5461, 6826, 1>>, e |-> -52], p |-> [m |-> <<4704, 870, 1197, 285, 1>>, e |-> -51]],
    [h |-> [m |-> <<6554, 3276, 1638, 6963, 1>>, e |-> -52], p |-> [m |-> <<1216, 4770, 5799, 377, 1>>, e |-> -51]],
    [h |-> [m |-> <<7646, 3822, 6007, 7099, 1>>, e |-> -52], p |-> [m |-> <<7094, 4525, 3577, 470, 1>>, e |-> -51]],
    [h |-> [m |-> <<546, 4369, 2184, 7236, 1>>, e |-> -52], p |-> [m |-> <<1278, 1966, 2713, 563, 1>>, e |-> -51]],
    [h |-> [m |-> <<1638, 4915, 6553, 7372, 1>>, e |-> -52], p |-> [m |-> <<3479, 196, 3197, 656, 1>>, e |-> -51]],
    [h |-> [m |-> <<2731, 5461, 2730, 7509, 1>>, e |-> -52], p |-> [m |-> <<5417, 3567, 5019, 749, 1>>, e |-> -51]],
    [h |-> [m |-> <<3823, 6007, 7099, 7645, 1>>, e |-> -52], p |-> [m |-> <<679, 1262, 8171, 842, 1>>, e |-> -51]],
    [h |-> [m |-> <<4915, 6553, 3276, 7782, 1>>, e |-> -52], p |-> [m |-> <<6347, 31, 4451, 936, 1>>, e |-> -51]],
    [h |-> [m |-> <<6007, 7099, 7645, 7918, 1>>, e |-> -52], p |-> [m |-> <<2332, 7786, 2041, 1030, 1>>, e |-> -51]],
    [h |-> [m |-> <<7100, 7645, 3822, 8055, 1>>, e |-> -52], p |-> [m |-> <<1091, 797, 935, 1124, 1>>, e |-> -51]],
    [h |-> [m |-> <<0, 0, 0, 0, 1>>, e |-> -51], p |-> [m |-> <<1652, 5591, 1121, 1218, 1>>, e |-> -51]],
    [h |-> [m |-> <<546, 4369, 2184, 68, 1>>, e |-> -51], p |-> [m |-> <<7911, 620, 2593, 1312, 1>>, e |-> -51]],
    [h |-> [m |-> <<1092, 546, 4369, 136, 1>>, e |-> -51], p |-> [m |-> <<4389, 6351, 5340, 1406, 1>>, e |-> -51]],
    [h |-> [m |-> <<1638, 4915, 6553, 204, 1>>, e |-> -51], p |-> [m |-> <<3923, 3316, 1164, 1501, 1>>, e |-> -51]],
    [h |-> [m |-> <<2185, 1092, 546, 273, 1>>, e |-> -51], p |-> [m |-> <<3157, 5822, 6439, 1595, 1>>, e |-> -51]],
    [h |-> [m |-> <<2731, 5461, 2730, 341, 1>>, e |-> -51], p |-> [m |-> <<1274, 4582, 4774, 1690, 1>>, e |-> -51]],
    [h |-> [m |-> <<3277, 1638, 4915, 409, 1>>, e |-> -51], p |-> [m |-> <<8011, 7652, 4352, 1785, 1>>, e |-> -51]],
    [h |-> [m |-> <<3823, 6007, 7099, 477, 1>>, e |-> -51], p |-> [m |-> <<7957, 7646, 5166, 1880, 1>>, e |-> -51]],
    [h |-> [m |-> <<4369, 2184, 1092, 546, 1>>, e |-> -51], p |-> [m |-> <<3821, 6286, 7208, 1975, 1>>, e |-> -51]],
    [h |-> [m |-> <<4915, 6553, 3276, 614, 1>>, e |-> -51], p |-> [m |-> <<7406, 6191, 2278, 2071, 1>>, e |-> -51]],
    [h |-> [m |-> <<5461, 2730, 5461, 682, 1>>, e |-> -51], p |-> [m |-> <<2658, 2670, 6753, 2166, 1>>, e |-> -51]],
    [h |-> [m |-> <<6007, 7099, 7645, 750, 1>>, e |-> -51], p |-> [m |-> <<3517, 80, 4241, 2262, 1>>, e |-> -51]],
    [h |-> [m |-> <<6554, 3276, 1638, 819, 1>>, e |-> -51], p |-> [m |-> <<1571, 3622, 2926, 2358, 1>>, e |-> -51]],
    [h |-> [m |-> <<7100, 7645, 3822, 887, 1>>, e |-> -51], p |-> [m |-> <<8165, 2934, 2802, 2454, 1>>, e |-> -51]],
    [h |-> [m |-> <<7646, 3822, 6007, 955, 1>>, e |-> -51], p |-> [m |-> <<2402, 4848, 3861, 2550, 1>>, e |-> -51]],
    [h |-> [m |-> <<0, 0, 0, 1024, 1>>, e |-> -51], p |-> [m |-> <<6040, 596, 6097, 2646, 1>>, e |-> -51]],
    [h |-> [m |-> <<546, 4369, 2184, 1092, 1>>, e |-> -51], p |-> [m |-> <<6640, 6763, 1309, 2743, 1>>, e |-> -51]],
    [h |-> [m |-> <<1092, 546, 4369, 1160, 1>>, e |-> -51], p |-> [m |-> <<7346, 7921, 5876, 2839, 1>>, e |-> -51]],
    [h |-> [m |-> <<1638, 4915, 6553, 1228, 1>>, e |-> -51], p |-> [m |-> <<6558, 5768, 3407, 2936, 1>>, e |-> -51]],
    [h |-> [m |-> <<2185, 1092, 546, 1297, 1>>, e |-> -51], p |-> [m |-> <<5677, 2728, 2087, 3033, 1>>, e |-> -51]],
    [h |-> [m |-> <<2731, 5461, 2730, 1365, 1>>, e |-> -51], p |-> [m |-> <<3827, 1937, 1909, 3130, 1>>, e |-> -51]],
    [h |-> [m |-> <<3277, 1638, 4915, 1433, 1>>, e |-> -51], p |-> [m |-> <<4058, 7228, 2866, 3227, 1>>, e |-> -51]],
    [h |-> [m |-> <<3823, 6007, 7099, 1501, 1>>, e |-> -51], p |-> [m |-> <<6276, 6734, 4953, 3324, 1>>, e |-> -51]],
    [h |-> [m |-> <<4369, 2184, 1092, 1570, 1>>, e |-> -51], p |-> [m |-> <<3239, 5643, 8163, 3421, 1>>, e |-> -51]],
    [h |-> [m |-> <<4915, 6553, 3276, 1638, 1>>, e |-> -51], p |-> [m |-> <<4061, 1606, 4298, 3519, 1>>, e |-> -51]],
    [h |-> [m |-> <<5461, 2730, 5461, 1706, 1>>, e |-> -51], p |-> [m |-> <<3205, 1112, 1543, 3617, 1>>, e |-> -51]],
    [h |-> [m |-> <<6007, 7099, 7645, 1774, 1>>, e |-> -51], p |-> [m |-> <<1388, 3089, 8084, 3714, 1>>, e |-> -51]],
    [h |-> [m |-> <<6554, 3276, 1638, 1843, 1>>, e |-> -51], p |-> [m |-> <<4556, 7084, 7531, 3812, 1>>, e |-> -51]],
    [h |-> [m |-> <<7100, 7645, 3822, 1911, 1>>, e |-> -51], p |-> [m |-> <<853, 5062, 8071, 3910, 1>>, e |-> -51]],
    [h |-> [m |-> <<7646, 3822, 6007, 1979, 1>>, e |-> -51], p |-> [m |-> <<5622, 5965, 1505, 4009, 1>>, e |-> -51]],
    [h |-> [m |-> <<0, 0, 0, 2048, 1>>, e |-> -51], p |-> [m |-> <<2304, 2940, 4212, 4107, 1>>, e |-> -51]],
    [h |-> [m |-> <<546, 4369, 2184, 2116, 1>>, e |-> -51], p |-> [m |-> <<360, 6089, 7993, 4205, 1>>, e |-> -51]],
    [h |-> [m |-> <<1092, 546, 4369, 2184, 1>>, e |-> -51], p |-> [m |-> <<5333, 1502, 4652, 4304, 1>>, e |-> -51]],
    [h |-> [m |-> <<1638, 4915, 6553, 2252, 1>>, e |-> -51], p |-> [m |-> <<7480, 400, 2374, 4403, 1>>, e |-> -51]],
    [h |-> [m |-> <<2185, 1092, 546, 2321, 1>>, e |-> -51], p |-> [m |-> <<5289, 6354, 1153, 4502, 1>>, e |-> -51]],
    [h |-> [m |-> <<2731, 5461, 2730, 2389, 1>>, e |-> -51], p |-> [m |-> <<6458, 7083, 985, 4601, 1>>, e |-> -51]],
    [h |-> [m |-> <<3277, 1638, 4915, 2457, 1>>, e |-> -51], p |-> [m |-> <<6302, 7215, 1864, 4700, 1>>, e |-> -51]],
    [h |-> [m |-> <<3823, 6007, 7099, 2525, 1>>, e |-> -51], p |-> [m |-> <<833, 3700, 3785, 4799, 1>>, e |-> -51]],
    [h |-> [m |-> <<4369, 2184, 1092, 2594, 1>>, e |-> -51], p |-> [m |-> <<1719, 2183, 6742, 4898, 1>>, e |-> -51]],
    [h |-> [m |-> <<4915, 6553, 3276, 2662, 1>>, e |-> -51], p |-> [m |-> <<3896, 615, 2538, 4998, 1>>, e |-> -51]],
    [h |-> [m |-> <<5461, 2730, 5461, 2730, 1>>, e |-> -51], p |-> [m |-> <<4080, 5626, 7551, 5097, 1>>, e |-> -51]],
    [h |-> [m |-> <<6007, 7099, 7645, 2798, 1>>, e |-> -51], p |-> [m |-> <<4610, 7940, 5393, 5197, 1>>, e |-> -51]],
    [h |-> [m |-> <<6554, 3276, 1638, 2867, 1>>, e |-> -51], p |-> [m |-> <<2542, 6944, 4251, 5297, 1>>, e |-> -51]],
    [h |-> [m |-> <<7100, 7645, 3822, 2935, 1>>, e |-> -51], p |-> [m |-> <<4929, 2486, 4120, 5397, 1>>, e |-> -51]],
    [h |-> [m |-> <<7646, 3822, 6007, 3003, 1>>, e |-> -51], p |-> [m |-> <<4703, 3062, 4994, 5497, 1>>, e |-> -51]],
    [h |-> [m |-> <<0, 0, 0, 3072, 1>>, e |-> -51], p |-> [m |-> <<7201, 1229, 6869, 5597, 1>>, e |-> -51]],
    [h |-> [m |-> <<546, 4369, 2184, 3140, 1>>, e |-> -51], p |-> [m |-> <<826, 6369, 1547, 5698, 1>>, e |-> -51]],
    [h |-> [m |-> <<1092, 546, 4369, 3208, 1>>, e |-> -51], p |-> [m |-> <<2851, 3716, 5409, 5798, 1>>, e |-> -51]],
    [h |-> [m |-> <<1638, 4915, 6553, 3276, 1>>, e |-> -51], p |-> [m |-> <<116, 3508, 2065, 5899, 1>>, e |-> -51]],
    [h |-> [m |-> <<2185, 1092, 546, 3345, 1>>, e |-> -51], p |-> [m |-> <<5746, 13, 7895, 5999, 1>>, e |-> -51]],
    [h |-> [m |-> <<2731, 5461, 2730, 3413, 1>>, e |-> -51], p |-> [m |-> <<2491, 4297, 6509, 6100, 1>>, e |-> -51]],
    [h |-> [m |-> <<3277, 1638, 4915, 3481, 1>>, e |-> -51], p |-> [m |-> <<2025, 3250, 6096, 6201, 1>>, e |-> -51]],
    [h |-> [m |-> <<3823, 6007, 7099, 3549, 1>>, e |-> -51], p |-> [m |-> <<7166, 544, 6651, 6302, 1>>, e |-> -51]],
    [h |-> [m |-> <<4369, 2184, 1092, 3618, 1>>, e |-> -51], p |-> [m |-> <<8060, 243, 8169, 6403, 1>>, e |-> -51]],
    [h |-> [m |-> <<4915, 6553, 3276, 3686, 1>>, e |-> -51], p |-> [m |-> <<4114, 6794, 2453, 6505, 1>>, e |-> -51]],
    [h |-> [m |-> <<5461, 2730, 5461, 3754, 1>>, e |-> -51], p |-> [m |-> <<2475, 445, 5885, 6606, 1>>, e |-> -51]],
    [h |-> [m |-> <<6007, 7099, 7645, 3822, 1>>, e |-> -51], p |-> [m |-> <<1234, 2777, 2074, 6708, 1>>, e |-> -51]],
    [h |-> [m |-> <<6554, 3276, 1638, 3891, 1>>, e |-> -51], p |-> [m |-> <<6467, 2968, 7401, 6809, 1>>, e |-> -51]],
    [h |-> [m |-> <<7100, 7645, 3822, 3959, 1>>, e |-> -51], p |-> [m |-> <<1154, 6943, 5477, 6911, 1>>, e |-> -51]],
    [h |-> [m |-> <<7646, 3822, 6007, 4027, 1>>, e |-> -51], p |-> [m |-> <<5247, 4593, 4491, 7013, 1>>, e |-> -51]],
    [h |-> [m |-> <<0, 0, 0, 4096, 1>>, e |-> -51], p |-> [m |-> <<5632, 2546, 4438, 7115, 1>>, e |-> -51]],
    [h |-> [m |-> <<546, 4369, 2184, 4164, 1>>, e |-> -51], p |-> [m |-> <<1748, 7772, 5313, 7217, 1>>, e |-> -51]],
    [h |-> [m |-> <<1092, 546, 4369, 4232, 1>>, e |-> -51], p |-> [m |-> <<2986, 3002, 7114, 7319, 1>>, e |-> -51]],
    [h |-> [m |-> <<1638, 4915, 6553, 4300, 1>>, e |-> -51], p |-> [m |-> <<2425, 4070, 1643, 7422, 1>>, e |-> -51]],
    [h |-> [m |-> <<2185, 1092, 546, 4369, 1>>, e |-> -51], p |-> [m |-> <<605, 2561, 5281, 7524, 1>>, e |-> -51]],
    [h |-> [m |-> <<2731, 5461, 2730, 4437, 1>>, e |-> -51], p |-> [m |-> <<5580, 6766, 1639, 7627, 1>>, e |-> -51]],
    [h |-> [m |-> <<3277, 1638, 4915, 4505, 1>>, e |-> -51], p |-> [m |-> <<1060, 721, 7099, 7729, 1>>, e |-> -51]],
    [h |-> [m |-> <<3823, 6007, 7099, 4573, 1>>, e |-> -51], p |-> [m |-> <<5466, 1539, 5271, 7832, 1>>, e |-> -51]],
    [h |-> [m |-> <<4369, 2184, 1092, 4642, 1>>, e |-> -51], p |-> [m |-> <<721, 2070, 4344, 7935, 1>>, e |-> -51]],
    [h |-> [m |-> <<4915, 6553, 3276, 4710, 1>>, e |-> -51], p |-> [m |-> <<1082, 3656, 4314, 8038, 1>>, e |-> -51]],
    [h |-> [m |-> <<5461, 2730, 5461, 4778, 1>>, e |-> -51], p |-> [m |-> <<8035, 7940, 5177, 8141, 1>>, e |-> -51]],
    [h |-> [m |-> <<6007, 7099, 7645, 4846, 1>>, e |-> -51], p |-> [m |-> <<3450, 4335, 3465, 26, 1>>, e |-> -50]],
    [h |-> [m |-> <<6554, 3276, 1638, 4915, 1>>, e |-> -51], p |-> [m |-> <<2554, 8133, 688, 78, 1>>, e |-> -50]],
    [h |-> [m |-> <<7100, 7645, 3822, 4983, 1>>, e |-> -51], p |-> [m |-> <<6912, 4333, 6545, 129, 1>>, e |-> -50]],
    [h |-> [m |-> <<7646, 3822, 6007, 5051, 1>>, e |-> -51], p |-> [m |-> <<6955, 2527, 4649, 181, 1>>, e |-> -50]],
    [h |-> [m |-> <<0, 0, 0, 5120, 1>>, e |-> -51], p |-> [m |-> <<2213, 4253, 3190, 233, 1>>, e |-> -50]],
    [h |-> [m |-> <<546, 4369, 2184, 5188, 1>>, e |-> -51], p |-> [m |-> <<1332, 2993, 2167, 285, 1>>, e |-> -50]],
    [h |-> [m |-> <<1092, 546, 4369, 5256, 1>>, e |-> -51], p |-> [m |-> <<6019, 557, 1578, 337, 1>>, e |-> -50]],
    [h |-> [m |-> <<1638, 4915, 6553, 5324, 1>>, e |-> -51], p |-> [m |-> <<3491, 7082, 1420, 389, 1>>, e |-> -50]],
    [h |-> [m |-> <<2185, 1092, 546, 5393, 1>>, e |-> -51], p |-> [m |-> <<179, 66, 1694, 441, 1>>, e |-> -50]],
    [h |-> [m |-> <<2731, 5461, 2730, 5461, 1>>, e |-> -51], p |-> [m |-> <<6585, 6288, 2395, 493, 1>>, e |-> -50]],
    [h |-> [m |-> <<3277, 1638, 4915, 5529, 1>>, e |-> -51], p |-> [m |-> <<6039, 3506, 3524, 545, 1>>, e |-> -50]],
    [h |-> [m |-> <<3823, 6007, 7099, 5597, 1>>, e |-> -51], p |-> [m |-> <<5655, 2369, 5078, 597, 1>>, e |-> -50]],
    [h |-> [m |-> <<4369, 2184, 1092, 5666, 1>>, e |-> -51], p |-> [m |-> <<5643, 5459, 7055, 649, 1>>, e |-> -50]],
    [h |-> [m |-> <<4915, 6553, 3276, 5734, 1>>, e |-> -51], p |-> [m |-> <<1658, 7289, 1262, 702, 1>>, e |-> -50]],
    [h |-> [m |-> <<5461, 2730, 5461, 5802, 1>>, e |-> -51], p |-> [m |-> <<3792, 2491, 4082, 754, 1>>, e |-> -50]],
    [h |-> [m |-> <<6007, 7099, 7645, 5870, 1>>, e |-> -51], p |-> [m |-> <<6673, 2202, 7320, 806, 1>>, e |-> -50]],
    [h |-> [m |-> <<6554, 3276, 1638, 5939, 1>>, e |-> -51], p |-> [m |-> <<768, 1293, 2783, 859, 1>>, e |-> -50]],
    [h |-> [m |-> <<7100, 7645, 3822, 6007, 1>>, e |-> -51], p |-> [m |-> <<322, 2940, 6853, 911, 1>>, e |-> -50]],
    [h |-> [m |-> <<7646, 3822, 6007, 6075, 1>>, e |-> -51], p |-> [m |-> <<5991, 2243, 3145, 964, 1>>, e |-> -50]],
    [h |-> [m |-> <<0, 0, 0, 6144, 1>>, e |-> -51], p |-> [m |-> <<479, 2609, 8041, 1016, 1>>, e |-> -50]],
    [h |-> [m |-> <<546, 4369, 2184, 6212, 1>>, e |-> -51], p |-> [m |-> <<1748, 7552, 5155, 1069, 1>>, e |-> -50]],
    [h |-> [m |-> <<1092, 546, 4369, 6280, 1>>, e |-> -51], p |-> [m |-> <<1758, 4315, 2679, 1122, 1>>, e |-> -50]],
    [h |-> [m |-> <<1638, 4915, 6553, 6348, 1>>, e |-> -51], p |-> [m |-> <<3735, 4824, 610, 1175, 1>>, e |-> -50]],
    [h |-> [m |-> <<2185, 1092, 546, 6417, 1>>, e |-> -51], p |-> [m |-> <<2296, 4729, 7139, 1227, 1>>, e |-> -50]],
    [h |-> [m |-> <<2731, 5461, 2730, 6485, 1>>, e |-> -51], p |-> [m |-> <<4751, 7976, 5880, 1280, 1>>, e |-> -50]],
    [h |-> [m |-> <<3277, 1638, 4915, 6553, 1>>, e |-> -51], p |-> [m |-> <<3457, 2233, 5025, 1333, 1>>, e |-> -50]],
    [h |-> [m |-> <<3823, 6007, 7099, 6621, 1>>, e |-> -51], p |-> [m |-> <<5702, 8037, 4570, 1386, 1>>, e |-> -50]],
    [h |-> [m |-> <<4369, 2184, 1092, 6690, 1>>, e |-> -51], p |-> [m |-> <<6456, 5068, 4516, 1439, 1>>, e |-> -50]],
    [h |-> [m |-> <<4915, 6553, 3276, 6758, 1>>, e |-> -51], p |-> [m |-> <<2256, 5874, 4860, 1492, 1>>, e |-> -50]],
    [h |-> [m |-> <<5461, 2730, 5461, 6826, 1>>, e |-> -51], p |-> [m |-> <<5286, 6716, 5601, 1545, 1>>, e |-> -50]],
    [h |-> [m |-> <<6007, 7099, 7645, 6894, 1>>, e |-> -51], p |-> [m |-> <<289, 3956, 6738, 1598, 1>>, e |-> -50]],
    [h |-> [m |-> <<6554, 3276, 1638, 6963, 1>>, e |-> -51], p |-> [m |-> <<8163, 2240, 77, 1652, 1>>, e |-> -50]],
    [h |-> [m |-> <<7100, 7645, 3822, 7031, 1>>, e |-> -51], p |-> [m |-> <<2254, 6315, 2000, 1705, 1>>, e |-> -50]],
    [h |-> [m |-> <<7646, 3822, 6007, 7099, 1>>, e |-> -51], p |-> [m |-> <<5066, 4632, 4315, 1758, 1>>, e |-> -50]],
    [h |-> [m |-> <<0, 0, 0, 7168, 1>>, e |-> -51], p |-> [m |-> <<4901, 2123, 7020, 1811, 1>>, e |-> -50]],
    [h |-> [m |-> <<546, 4369, 2184, 7236, 1>>, e |-> -51], p |-> [m |-> <<3733, 3810, 1921, 1865, 1>>, e |-> -50]],
    [h |-> [m |-> <<1092, 546, 4369, 7304, 1>>, e |-> -51], p |-> [m |-> <<7900, 6613, 5401, 1918, 1>>, e |-> -50]],
    [h |-> [m |-> <<1638, 4915, 6553, 7372, 1>>, e |-> -51], p |-> [m |-> <<2571, 7544, 1075, 1972, 1>>, e |-> -50]],
    [h |-> [m |-> <<2185, 1092, 546, 7441, 1>>, e |-> -51], p |-> [m |-> <<87, 3700, 5326, 2025, 1>>, e |-> -50]],
    [h |-> [m |-> <<2731, 5461, 2730, 7509, 1>>, e |-> -51], p |-> [m |-> <<6536, 458, 1768, 2079, 1>>, e |-> -50]],
    [h |-> [m |-> <<3277, 1638, 4915, 7577, 1>>, e |-> -51], p |-> [m |-> <<4858, 3284, 6783, 2132, 1>>, e |-> -50]],
    [h |-> [m |-> <<3823, 6007, 7099, 7645, 1>>, e |-> -51], p |-> [m |-> <<3628, 1342, 3987, 2186, 1>>, e |-> -50]],
    [h |-> [m |-> <<4369, 2184, 1092, 7714, 1>>, e |-> -51], p |-> [m |-> <<4059, 265, 1570, 2240, 1>>, e |-> -50]],
    [h |-> [m |-> <<4915, 6553, 3276, 7782, 1>>, e |-> -51], p |-> [m |-> <<8103, 5769, 7722, 2293, 1>>, e |-> -50]],
    [h |-> [m |-> <<5461, 2730, 5461, 7850, 1>>, e |-> -51], p |-> [m |-> <<2110, 7270, 6059, 2347, 1>>, e |-> -50]],
    [h |-> [m |-> <<6007, 7099, 7645, 7918, 1>>, e |-> -51], p |-> [m |-> <<6157, 2453, 4772, 2401, 1>>, e |-> -50]],
    [h |-> [m |-> <<6554, 3276, 1638, 7987, 1>>, e |-> -51], p |-> [m |-> <<626, 5472, 3858, 2455, 1>>, e |-> -50]],
    [h |-> [m |-> <<7100, 7645, 3822, 8055, 1>>, e |-> -51], p |-> [m |-> <<357, 5980, 3317, 2509, 1>>, e |-> -50]],
    [h |-> [m |-> <<7646, 3822, 6007, 8123, 1>>, e |-> -51], p |-> [m |-> <<6056, 1902, 3148, 2563, 1>>, e |-> -50]],
    [h |-> [m |-> <<0, 0, 0, 0, 1>>, e |-> -50], p |-> [m |-> <<4972, 7626, 3348, 2617, 1>>, e |-> -50]],
    [h |-> [m |-> <<4369, 2184, 1092, 34, 1>>, e |-> -50], p |-> [m |-> <<4458, 4846, 3918, 2671, 1>>, e |-> -50]],
    [h |-> [m |-> <<546, 4369, 2184, 68, 1>>, e |-> -50], p |-> [m |-> <<116, 8101, 4855, 2725, 1>>, e |-> -50]],
    [h |-> [m |-> <<4915, 6553, 3276, 102, 1>>, e |-> -50], p |-> [m |-> <<1399, 7427, 6159, 2779, 1>>, e |-> -50]],
    [h |-> [m |-> <<1092, 546, 4369, 136, 1>>, e |-> -50], p |-> [m |-> <<8176, 1127, 7829, 2833, 1>>, e |-> -50]],
    [h |-> [m |-> <<5461, 2730, 5461, 170, 1>>, e |-> -50], p |-> [m |-> <<3787, 3963, 1670, 2888, 1>>, e |-> -50]],
    [h |-> [m |-> <<1638, 4915, 6553, 204, 1>>, e |-> -50], p |-> [m |-> <<5549, 6189, 4066, 2942, 1>>, e |-> -50]],
    [h |-> [m |-> <<6007, 7099, 7645, 238, 1>>, e |-> -50], p |-> [m |-> <<687, 6326, 6824, 2996, 1>>, e |-> -50]],
    [h |-> [m |-> <<2185, 1092, 546, 273, 1>>, e |-> -50], p |-> [m |-> <<5241, 2962, 1751, 3051, 1>>, e |-> -50]],
    [h |-> [m |-> <<6554, 3276, 1638, 307, 1>>, e |-> -50], p |-> [m |-> <<192, 2951, 5229, 3105, 1>>, e |-> -50]],
    [h |-> [m |-> <<2731, 5461, 2730, 341, 1>>, e |-> -50], p |-> [m |-> <<6967, 5019, 873, 3160, 1>>, e |-> -50]],
    [h |-> [m |-> <<7100, 7645, 3822, 375, 1>>, e |-> -50], p |-> [m |-> <<7376, 7965, 5066, 3214, 1>>, e |-> -50]],
    [h |-> [m |-> <<3277, 1638, 4915, 409, 1>>, e |-> -50], p |-> [m |-> <<2920, 2461, 1424, 3269, 1>>, e |-> -50]],
    [h |-> [m |-> <<7646, 3822, 6007, 443, 1>>, e |-> -50], p |-> [m |-> <<458, 3821, 6328, 3323, 1>>, e |-> -50]],
    [h |-> [m |-> <<3823, 6007, 7099, 477, 1>>, e |-> -50], p |-> [m |-> <<6163, 2849, 3394, 3378, 1>>, e |-> -50]],
    [h |-> [m |-> <<0, 0, 0, 512, 1>>, e |-> -50], p |-> [m |-> <<3183, 6801, 812, 3433, 1>>, e |-> -50]],
    [h |-> [m |-> <<4369, 2184, 1092, 546, 1>>, e |-> -50], p |-> [m |-> <<3121, 6610, 6774, 3487, 1>>, e |-> -50]],
    [h |-> [m |-> <<546, 4369, 2184, 580, 1>>, e |-> -50], p |-> [m |-> <<7485, 1466, 4895, 3542, 1>>, e |-> -50]],
    [h |-> [m |-> <<4915, 6553, 3276, 614, 1>>, e |-> -50], p |-> [m |-> <<1992, 7008, 3364, 3597, 1>>, e |-> -50]],
    [h |-> [m |-> <<1092, 546, 4369, 648, 1>>, e |-> -50], p |-> [m |-> <<119, 6166, 2182, 3652, 1>>, e |-> -50]],
    [h |-> [m |-> <<5461, 2730, 5461, 682, 1>>, e |-> -50], p |-> [m |-> <<4797, 6509, 1347, 3707, 1>>, e |-> -50]],
    [h |-> [m |-> <<1638, 4915, 6553, 716, 1>>, e |-> -50], p |-> [m |-> <<2971, 7477, 858, 3762, 1>>, e |-> -50]],
    [h |-> [m |-> <<6007, 7099, 7645, 750, 1>>, e |-> -50], p |-> [m |-> <<1193, 376, 715, 3817, 1>>, e |-> -50]],
    [h |-> [m |-> <<2185, 1092, 546, 785, 1>>, e |-> -50], p |-> [m |-> <<3947, 1148, 915, 3872, 1>>, e |-> -50]],
    [h |-> [m |-> <<6554, 3276, 1638, 819, 1>>, e |-> -50], p |-> [m |-> <<238, 1220, 1458, 3927, 1>>, e |-> -50]],
    [h |-> [m |-> <<2731, 5461, 2730, 853, 1>>, e |-> -50], p |-> [m |-> <<7617, 266, 2343, 3982, 1>>, e |-> -50]],
    [h |-> [m |-> <<7100, 7645, 3822, 887, 1>>, e |-> -50], p |-> [m |-> <<1577, 6215, 3568, 4037, 1>>, e |-> -50]],
    [h |-> [m |-> <<3277, 1638, 4915, 921, 1>>, e |-> -50], p |-> [m |-> <<669, 2472, 5134, 4092, 1>>, e |-> -50]],
    [h |-> [m |-> <<7646, 3822, 6007, 955, 1>>, e |-> -50], p |-> [m |-> <<4240, 5269, 7038, 4147, 1>>, e |-> -50]],
    [h |-> [m |-> <<3823, 6007, 7099, 989, 1>>, e |-> -50], p |-> [m |-> <<3970, 6319, 1088, 4203, 1>>, e |-> -50]],
    [h |-> [m |-> <<0, 0, 0, 1024, 1>>, e |-> -50], p |-> [m |-> <<3658, 5581, 3667, 4258, 1>>, e |-> -50]],
    [h |-> [m |-> <<4369, 2184, 1092, 1058, 1>>, e |-> -50], p |-> [m |-> <<6322, 3069, 6582, 4313, 1>>, e |-> -50]],
    [h |-> [m |-> <<546, 4369, 2184, 1092, 1>>, e |-> -50], p |-> [m |-> <<1352, 7045, 1639, 4369, 1>>, e |-> -50]],
    [h |-> [m |-> <<4915, 6553, 3276, 1126, 1>>, e |-> -50], p |-> [m |-> <<893, 1246, 5223, 4424, 1>>, e |-> -50]],
    [h |-> [m |-> <<1092, 546, 4369, 1160, 1>>, e |-> -50], p |-> [m |-> <<2549, 2232, 947, 4480, 1>>, e |-> -50]],
    [h |-> [m |-> <<5461, 2730, 5461, 1194, 1>>, e |-> -50], p |-> [m |-> <<1318, 2040, 5195, 4535, 1>>, e |-> -50]],
    [h |-> [m |-> <<1638, 4915, 6553, 1228, 1>>, e |-> -50], p |-> [m |-> <<1572, 950, 1582, 4591, 1>>, e |-> -50]],
    [h |-> [m |-> <<6007, 7099, 7645, 1262, 1>>, e |-> -50], p |-> [m |-> <<4537, 7486, 6490, 4646, 1>>, e |-> -50]],
    [h |-> [m |-> <<2185, 1092, 546, 1297, 1>>, e |-> -50], p |-> [m |-> <<4013, 5648, 3536, 4702, 1>>, e |-> -50]],
    [h |-> [m |-> <<6554, 3276, 1638, 1331, 1>>, e |-> -50], p |-> [m |-> <<6730, 4061, 910, 4758, 1>>, e |-> -50]],
    [h |-> [m |-> <<2731, 5461, 2730, 1365, 1>>, e |-> -50], p |-> [m |-> <<3622, 3210, 6803, 4813, 1>>, e |-> -50]],
    [h |-> [m |-> <<7100, 7645, 3822, 1399, 1>>, e |-> -50], p |-> [m |-> <<6673, 3627, 4830, 4869, 1>>, e |-> -50]],
    [h |-> [m |-> <<3277, 1638, 4915, 1433, 1>>, e |-> -50], p |-> [m |-> <<3917, 5896, 3182, 4925, 1>>, e |-> -50]],
    [h |-> [m |-> <<7646, 3822, 6007, 1467, 1>>, e |-> -50], p |-> [m |-> <<4593, 2455, 1859, 4981, 1>>, e |-> -50]],
    [h |-> [m |-> <<3823, 6007, 7099, 1501, 1>>, e |-> -50], p |-> [m |-> <<2435, 2176, 859, 5037, 1>>, e |-> -50]],
    [h |-> [m |-> <<0, 0, 0, 1536, 1>>, e |-> -50], p |-> [m |-> <<4560, 5785, 181, 5093, 1>>, e |-> -50]],
    [h |-> [m |-> <<4369, 2184, 1092, 1570, 1>>, e |-> -50], p |-> [m |-> <<3052, 5865, 8017, 5148, 1>>, e |-> -50]],
    [h |-> [m |-> <<546, 4369, 2184, 1604, 1>>, e |-> -50], p |-> [m |-> <<3944, 3236, 7982, 5204, 1>>, e |-> -50]],
    [h |-> [m |-> <<4915, 6553, 3276, 1638, 1>>, e |-> -50], p |-> [m |-> <<7107, 6957, 74, 5261, 1>>, e |-> -50]],
    [h |-> [m |-> <<1092, 546, 4369, 1672, 1>>, e |-> -50], p |-> [m |-> <<2560, 1558, 678, 5317, 1>>, e |-> -50]],
    [h |-> [m |-> <<5461, 2730, 5461, 1706, 1>>, e |-> -50], p |-> [m |-> <<7795, 4379, 1599, 5373, 1>>, e |-> -50]],
    [h |-> [m |-> <<1638, 4915, 6553, 1740, 1>>, e |-> -50], p |-> [m |-> <<6844, 41, 2838, 5429, 1>>, e |-> -50]],
    [h |-> [m |-> <<6007, 7099, 7645, 1774, 1>>, e |-> -50], p |-> [m |-> <<4084, 5975, 4392, 5485, 1>>, e |-> -50]],
    [h |-> [m |-> <<2185, 1092, 546, 1809, 1>>, e |-> -50], p |-> [m |-> <<4355, 6888, 6262, 5541, 1>>, e |-> -50]],
    [h |-> [m |-> <<6554, 3276, 1638, 1843, 1>>, e |-> -50], p |-> [m |-> <<1315, 3916, 255, 5598, 1>>, e |-> -50]],
    [h |-> [m |-> <<2731, 5461, 2730, 1877, 1>>, e |-> -50], p |-> [m |-> <<6811, 6428, 2753, 5654, 1>>, e |-> -50]],
    [h |-> [m |-> <<7100, 7645, 3822, 1911, 1>>, e |-> -50], p |-> [m |-> <<6547, 7455, 5564, 5710, 1>>, e |-> -50]],
    [h |-> [m |-> <<3277, 1638, 4915, 1945, 1>>, e |-> -50], p |-> [m |-> <<5928, 68, 496, 5767, 1>>, e |-> -50]],
    [h |-> [m |-> <<7646, 3822, 6007, 1979, 1>>, e |-> -50], p |-> [m |-> <<2197, 1957, 3930, 5823, 1>>, e |-> -50]],
    [h |-> [m |-> <<3823, 6007, 7099, 2013, 1>>, e |-> -50], p |-> [m |-> <<5786, 6276, 7674, 5879, 1>>, e |-> -50]],
    [h |-> [m |-> <<0, 0, 0, 2048, 1>>, e |-> -50], p |-> [m |-> <<4350, 6223, 3536, 5936, 1>>, e |-> -50]],
    [h |-> [m |-> <<4369, 2184, 1092, 2082, 1>>, e |-> -50], p |-> [m |-> <<575, 3227, 7899, 5992, 1>>, e |-> -50]],
    [h |-> [m |-> <<546, 4369, 2184, 2116, 1>>, e |-> -50], p |-> [m |-> <<873, 6949, 4377, 6049, 1>>, e |-> -50]],
    [h |-> [m |-> <<4915, 6553, 3276, 2150, 1>>, e |-> -50], p |-> [m |-> <<4119, 2515, 1163, 6106, 1>>, e |-> -50]],
    [h |-> [m |-> <<1092, 546, 4369, 2184, 1>>, e |-> -50], p |-> [m |-> <<6803, 7859, 6446, 6162, 1>>, e |-> -50]],
    [h |-> [m |-> <<5461, 2730, 5461, 2218, 1>>, e |-> -50], p |-> [m |-> <<37, 8187, 3843, 6219, 1>>, e |-> -50]],
    [h |-> [m |-> <<1638, 4915, 6553, 2252, 1>>, e |-> -50], p |-> [m |-> <<7555, 5124, 1545, 6276, 1>>, e |-> -50]],
    [h |-> [m |-> <<6007, 7099, 7645, 2286, 1>>, e |-> -50], p |-> [m |-> <<865, 340, 7743, 6332, 1>>, e |-> -50]],
    [h |-> [m |-> <<2185, 1092, 546, 2321, 1>>, e |-> -50], p |-> [m |-> <<2868, 3729, 6051, 6389, 1>>, e |-> -50]],
    [h |-> [m |-> <<6554, 3276, 1638, 2355, 1>>, e |-> -50], p |-> [m |-> <<3072, 651, 4662, 6446, 1>>, e |-> -50]],
    [h |-> [m |-> <<2731, 5461, 2730, 2389, 1>>, e |-> -50], p |-> [m |-> <<3943, 1078, 3574, 6503, 1>>, e |-> -50]],
    [h |-> [m |-> <<7100, 7645, 3822, 2423, 1>>, e |-> -50], p |-> [m |-> <<1732, 6828, 2786, 6560, 1>>, e |-> -50]],
    [h |-> [m |-> <<3277, 1638, 4915, 2457, 1>>, e |-> -50], p |-> [m |-> <<109, 3371, 2299, 6617, 1>>, e |-> -50]],
    [h |-> [m |-> <<7646, 3822, 6007, 2491, 1>>, e |-> -50], p |-> [m |-> <<7457, 789, 2111, 6674, 1>>, e |-> -50]],
    [h |-> [m |-> <<3823, 6007, 7099, 2525, 1>>, e |-> -50], p |-> [m |-> <<1413, 1012, 2221, 6731, 1>>, e |-> -50]],
    [h |-> [m |-> <<0, 0, 0, 2560, 1>>, e |-> -50], p |-> [m |-> <<8147, 6000, 2628, 6788, 1>>, e |-> -50]],
    [h |-> [m |-> <<4369, 2184, 1092, 2594, 1>>, e |-> -50], p |-> [m |-> <<1438, 1371, 3333, 6845, 1>>, e |-> -50]],
    [h |-> [m |-> <<546, 4369, 2184, 2628, 1>>, e |-> -50], p |-> [m |-> <<6584, 5540, 4333, 6902, 1>>, e |-> -50]],
    [h |-> [m |-> <<4915, 6553, 3276, 2662, 1>>, e |-> -50], p |-> [m |-> <<7738, 4194, 5629, 6959, 1>>, e |-> -50]],
    [h |-> [m |-> <<1092, 546, 4369, 2696, 1>>, e |-> -50], p |-> [m |-> <<2727, 7629, 7219, 7016, 1>>, e |-> -50]],
    [h |-> [m |-> <<5461, 2730, 5461, 2730, 1>>, e |-> -50], p |-> [m |-> <<558, 1598, 912, 7074, 1>>, e |-> -50]],
    [h |-> [m |-> <<1638, 4915, 6553, 2764, 1>>, e |-> -50], p |-> [m |-> <<2570, 4657, 3089, 7131, 1>>, e |-> -50]],
    [h |-> [m |-> <<6007, 7099, 7645, 2798, 1>>, e |-> -50], p |-> [m |-> <<0, 2629, 5559, 7188, 1>>, e |-> -50]],
    [h |-> [m |-> <<2185, 1092, 546, 2833, 1>>, e |-> -50], p |-> [m |-> <<4346, 5944, 128, 7246, 1>>, e |-> -50]],
    [h |-> [m |-> <<6554, 3276, 1638, 2867, 1>>, e |-> -50], p |-> [m |-> <<4023, 492, 3181, 7303, 1>>, e |-> -50]],
    [h |-> [m |-> <<2731, 5461, 2730, 2901, 1>>, e |-> -50], p |-> [m |-> <<2981, 4962, 6523, 7360, 1>>, e |-> -50]],
    [h |-> [m |-> <<7100, 7645, 3822, 2935, 1>>, e |-> -50], p |-> [m |-> <<1995, 5308, 1963, 7418, 1>>, e |-> -50]],
    [h |-> [m |-> <<3277, 1638, 4915, 2969, 1>>, e |-> -50], p |-> [m |-> <<4561, 3900, 5884, 7475, 1>>, e |-> -50]],
    [h |-> [m |-> <<7646, 3822, 6007, 3003, 1>>, e |-> -50], p |-> [m |-> <<6437, 3141, 1901, 7533, 1>>, e |-> -50]],
    [h |-> [m |-> <<3823, 6007, 7099, 3037, 1>>, e |-> -50], p |-> [m |-> <<1590, 5466, 6397, 7590, 1>>, e |-> -50]],
    [h |-> [m |-> <<0, 0, 0, 3072, 1>>, e |-> -50], p |-> [m |-> <<4560, 5147, 2988, 7648, 1>>, e |-> -50]],
    [h |-> [m |-> <<4369, 2184, 1092, 3106, 1>>, e |-> -50], p |-> [m |-> <<7304, 4682, 8057, 7705, 1>>, e |-> -50]],
    [h |-> [m |-> <<546, 4369, 2184, 3140, 1>>, e |-> -50], p |-> [m |-> <<1610, 6600, 5219, 7763, 1>>, e |-> -50]],
    [h |-> [m |-> <<4915, 6553, 3276, 3174, 1>>, e |-> -50], p |-> [m |-> <<1529, 5266, 2666, 7821, 1>>, e |-> -50]],
    [h |-> [m |-> <<1092, 546, 4369, 3208, 1>>, e |-> -50], p |-> [m |-> <<301, 3270, 397, 7879, 1>>, e |-> -50]],
    [h |-> [m |-> <<5461, 2730, 5461, 3242, 1>>, e |-> -50], p |-> [m |-> <<1030, 3231, 6603, 7936, 1>>, e |-> -50]],
    [h |-> [m |-> <<1638, 4915, 6553, 3276, 1>>, e |-> -50], p |-> [m |-> <<6423, 7798, 4899, 7994, 1>>, e |-> -50]],
    [h |-> [m |-> <<6007, 7099, 7645, 3310, 1>>, e |-> -50], p |-> [m |-> <<359, 3268, 3478, 8052, 1>>, e |-> -50]],
    [h |-> [m |-> <<2185, 1092, 546, 3345, 1>>, e |-> -50], p |-> [m |-> <<3215, 539, 2338, 8110, 1>>, e |-> -50]],
    [h |-> [m |-> <<6554, 3276, 1638, 3379, 1>>, e |-> -50], p |-> [m |-> <<4323, 2350, 1478, 8168, 1>>, e |-> -50]],
    [h |-> [m |-> <<2731, 5461, 2730, 3413, 1>>, e |-> -50], p |-> [m |-> <<481, 1638, 449, 17, 1>>, e |-> -49]],
    [h |-> [m |-> <<7100, 7645, 3822, 3447, 1>>, e |-> -50], p |-> [m |-> <<6391, 7151, 298, 46, 1>>, e |-> -49]],
    [h |-> [m |-> <<3277, 1638, 4915, 3481, 1>>, e |-> -50], p |-> [m |-> <<3071, 6840, 287, 75, 1>>, e |-> -49]],
    [h |-> [m |-> <<7646, 3822, 6007, 3515, 1>>, e |-> -50], p |-> [m |-> <<7541, 6225, 415, 104, 1>>, e |-> -49]],
    [h |-> [m |-> <<3823, 6007, 7099, 3549, 1>>, e |-> -50], p |-> [m |-> <<4179, 2652, 682, 133, 1>>, e |-> -49]],
    [h |-> [m |-> <<0, 0, 0, 3584, 1>>, e |-> -50], p |-> [m |-> <<1129, 1670, 1087, 162, 1>>, e |-> -49]],
    [h |-> [m |-> <<4369, 2184, 1092, 3618, 1>>, e |-> -50], p |-> [m |-> <<4804, 650, 1630, 191, 1>>, e |-> -49]],
    [h |-> [m |-> <<546, 4369, 2184, 3652, 1>>, e |-> -50], p |-> [m |-> <<2583, 5171, 2310, 220, 1>>, e |-> -49]],
    [h |-> [m |-> <<4915, 6553, 3276, 3686, 1>>, e |-> -50], p |-> [m |-> <<2871, 4439, 3128, 249, 1>>, e |-> -49]],
    [h |-> [m |-> <<1092, 546, 4369, 3720, 1>>, e |-> -50], p |-> [m |-> <<1435, 4059, 4083, 278, 1>>, e |-> -49]],
    [h |-> [m |-> <<5461, 2730, 5461, 3754, 1>>, e |-> -50], p |-> [m |-> <<5093, 1456, 5175, 307, 1>>, e |-> -49]],
    [h |-> [m |-> <<1638, 4915, 6553, 3788, 1>>, e |-> -50], p |-> [m |-> <<6267, 2262, 6403, 336, 1>>, e |-> -49]],
    [h |-> [m |-> <<6007, 7099, 7645, 3822, 1>>, e |-> -50], p |-> [m |-> <<6690, 3929, 7767, 365, 1>>, e |-> -49]],
    [h |-> [m |-> <<2185, 1092, 546, 3857, 1>>, e |-> -50], p |-> [m |-> <<167, 3923, 1075, 395, 1>>, e |-> -49]],
    [h |-> [m |-> <<6554, 3276, 1638, 3891, 1>>, e |-> -50], p |-> [m |-> <<4496, 7912, 2710, 424, 1>>, e |-> -49]],
    [h |-> [m |-> <<2731, 5461, 2730, 3925, 1>>, e |-> -50], p |-> [m |-> <<3286, 5197, 4481, 453, 1>>, e |-> -49]],
    [h |-> [m |-> <<7100, 7645, 3822, 3959, 1>>, e |-> -50], p |-> [m |-> <<2472, 1473, 6387, 482, 1>>, e |-> -49]],
    [h |-> [m |-> <<3277, 1638, 4915, 3993, 1>>, e |-> -50], p |-> [m |-> <<4919, 2448, 235, 512, 1>>, e |-> -49]],
    [h |-> [m |-> <<7646, 3822, 6007, 4027, 1>>, e |-> -50], p |-> [m |-> <<1418, 5652, 2409, 541, 1>>, e |-> -49]],
    [h |-> [m |-> <<3823, 6007, 7099, 4061, 1>>, e |-> -50], p |-> [m |-> <<2651, 433, 4718, 570, 1>>, e |-> -49]],
    [h |-> [m |-> <<0, 0, 0, 4096, 1>>, e |-> -50], p |-> [m |-> <<5631, 729, 7160, 599, 1>>, e |-> -49]]
    }

\* hours_since_post ** 1.2 for a base that is not negative
pow_1_2(h) == (CHOOSE row \in Pow12 : row.h.m = h.m /\ row.h.e = h.e).p

-----------------------------------------------------------------------------
(* The scoring functions, lines 37-77 *)

\* every key of a post that the body of generate_feed reads
RequiredFields ==
    {"author", "likes", "reposts", "comments", "quotes", "hashtags",
     "content_format", "engaged_by_followers", "timestamp"}

\* post['likes'] * 1.8 + post['reposts'] * 1.4 + post['comments'] * 3
\*     + post['quotes'] * 4.5
engagement_score(post) ==
    FAdd(FAdd(FAdd(FMul(FFromInt(post["likes"]), F1_8),
                   FMul(FFromInt(post["reposts"]), F1_4)),
              FFromInt(post["comments"] * 3)),
         FMul(FFromInt(post["quotes"]), F4_5))

\* post.get('engaged_by_followers', 0) * 2, an int
virality_bonus(post) == Get(post, "engaged_by_followers", 0) * 2

\* len(set(post['hashtags']) & trending_hashtags) * 3, an int
hashtag_bonus(post) ==
    Cardinality(ToSet(post["hashtags"]) \cap trending_hashtags) * 3

InteractionDefaultOne(post) == Get(interaction_history, post["author"], 1) * 2

\* interaction_history.get(post['author'], 0) * 2, an int
interaction_bonus(post) == Get(interaction_history, post["author"], 0) * 2

\* format_preferences.get(post['content_format'], 1) * 2, an int
content_format_bonus(post) ==
    Get(format_preferences, post["content_format"], 1) * 2

\* (current_time - post['timestamp']) / 3600: a float with its sign
hours_since_post(post, current_time) ==
    LET d == current_time - post["timestamp"]
        a == FDiv(FFromInt(IF d < 0 THEN 0 - d ELSE d), FFromInt(Hour))
    IN  [neg |-> d < 0, m |-> a.m, e |-> a.e]

\* 1 / (1 + hours_since_post ** 1.2): a complex number when the base of the
\* power is negative
time_decay(post, current_time) ==
    LET h == hours_since_post(post, current_time)
    IN  IF h.neg THEN Complex
        ELSE Real(FDiv(FOne, FAdd(FOne, pow_1_2(h))))

DiversityNoFloor(post, frequency) ==
    LET penalty_factor ==
            FSub(FOne, FMul(FFromInt(Get(frequency, post["author"], 0)), F0_02))
    IN  IF penalty_factor.neg THEN FZero
        ELSE [m |-> penalty_factor.m, e |-> penalty_factor.e]

\* max(1 - author_frequency.get(post['author'], 0) * 0.02, 0.9): 0.9 when
\* penalty_factor is negative
diversity_penalty(post, frequency) ==
    LET penalty_factor ==
            FSub(FOne, FMul(FFromInt(Get(frequency, post["author"], 0)), F0_02))
    IN  IF penalty_factor.neg THEN F0_9
        ELSE FMax([m |-> penalty_factor.m, e |-> penalty_factor.e], F0_9)

\* the sum of the five bonuses, lines 88-92
additive_part(post) ==
    FAdd(FAdd(FAdd(FAdd(engagement_score(post),
                        FFromInt(virality_bonus(post))),
                   FFromInt(hashtag_bonus(post))),
              FFromInt(interaction_bonus(post))),
         FFromInt(content_format_bonus(post)))

\* additive * time_decay * diversity, lines 87-95
final_score(additive, decay, diversity) ==
    IF decay.cx THEN Complex
    ELSE Real(FMul(FMul(additive, decay), diversity))

-----------------------------------------------------------------------------
(* The statements of the body, lines 80-98 *)

CounterOfDistinct(ps, h) ==
    [a \in {h[ps[k]]["author"] : k \in DOMAIN ps} |-> 1]

\* Counter(post['author'] for post in posts)
Counter(ps, h) ==
    [a \in {h[ps[k]]["author"] : k \in DOMAIN ps} |->
        Cardinality({k \in DOMAIN ps : h[ps[k]]["author"] = a})]

KeepAll(ps, h, follows) == ps

\* [post for post in posts if post['author'] in user_follows]
Filtered(ps, h, follows) ==
    LET followed(r) == h[r]["author"] \in follows
    IN  SelectSeq(ps, followed)

\* post['final_score'] = ..., for post the i-th of relevant_posts
Annotate(h, rel, i, score) ==
    [h EXCEPT ![rel[i]] = SetItem(@, "final_score", score)]

\* the key of line 98
Key(h, r) == h[r]["final_score"]

\* a stable ascending sort of the list rel by final_score: an element goes
\* behind the elements of a smaller key and behind the earlier elements of
\* an equal key; a list of one element is not compared
StableAscending(rel, h) ==
    IF Len(rel) <= 1 THEN rel
    ELSE LET ahead(j, i) ==
                 \/ FLess(Key(h, rel[j]), Key(h, rel[i]))
                 \/ j < i /\ ~FLess(Key(h, rel[i]), Key(h, rel[j]))
             place == [i \in DOMAIN rel |->
                          1 + Cardinality({j \in DOMAIN rel : ahead(j, i)})]
         IN  [k \in DOMAIN rel |-> rel[CHOOSE i \in DOMAIN rel : place[i] = k]]

DescendingByReversal(rel, h) == Reverse(StableAscending(rel, h))

\* sorted(relevant_posts, key=..., reverse=True): the list is reversed,
\* sorted ascending by a stable sort, and reversed again
sorted_descending(rel, h) == Reverse(StableAscending(Reverse(rel), h))

\* the exception sorted(...) raises, or "none": the keys are all read first,
\* and a list of two or more is compared, which complex numbers do not support
SortError(rel, h) ==
    IF \E i \in DOMAIN rel : "final_score" \notin DOMAIN h[rel[i]]
    THEN "KeyError"
    ELSE IF Len(rel) >= 2 /\ \E i \in DOMAIN rel : Key(h, rel[i]).cx
         THEN "TypeError"
         ELSE "none"

Unscored ==
    [writes |-> 0, additive |-> FZero, time_decay |-> Real(FZero),
     diversity |-> FZero, current_time |-> 0]

-----------------------------------------------------------------------------
(* The inputs of a call *)

\* the post of the example: 44.5 + 4 + 6 + 20 + 2 = 76.5 under ExampleContext
Example ==
    [author |-> "user1", likes |-> 10, reposts |-> 5, comments |-> 2,
     quotes |-> 3, hashtags |-> <<"#AI", "#Bluesky">>,
     content_format |-> "text", engaged_by_followers |-> 2,
     timestamp |-> Now0 - 2 * Hour]

\* the same post, half an hour more recent
Recent == [Example EXCEPT !["timestamp"] = Now0 - 3 * (Hour \div 2)]

\* the same post, dated half an hour after the call begins
Future == [Example EXCEPT !["timestamp"] = Now0 + Hour \div 2]

\* a post of another author; its list of hashtags repeats one
Design ==
    [author |-> "user2", likes |-> 5, reposts |-> 2, comments |-> 1,
     quotes |-> 0, hashtags |-> <<"#Design", "#Design">>,
     content_format |-> "image", engaged_by_followers |-> 1,
     timestamp |-> Now0 - Hour]

\* a post of the same author: under ExampleContext its additive part is 9.4,
\* half of Design's 18.8, and it is one hour more recent, so that the two
\* scores are equal when both are computed at Now0
Video ==
    [author |-> "user2", likes |-> 3, reposts |-> 0, comments |-> 0,
     quotes |-> 0, hashtags |-> <<>>,
     content_format |-> "video", engaged_by_followers |-> 1,
     timestamp |-> Now0]

WellFormedPosts == {Example, Recent, Future, Design, Video}

\* Example and Design, whole or with one required field missing
MalformedPosts ==
    {Example, Design}
        \cup {Without(Example, f) : f \in RequiredFields}
        \cup {Without(Design, f) : f \in RequiredFields}

FollowSets == SUBSET {"user1", "user2"}

\* the viewer context of the example
ExampleContext ==
    [interaction_history |-> [a \in {"user1"} |-> 10],
     trending_hashtags |-> {"#AI", "#Bluesky"},
     format_preferences |-> [f \in {"text"} |-> 1]]

\* a context whose dicts have other keys and no default values
OtherContext ==
    [interaction_history |-> [a \in {"user2"} |-> 5],
     trending_hashtags |-> {"#Design"},
     format_preferences |-> [f \in {"image", "text"} |->
                                IF f = "image" THEN 3 ELSE 0]]

Contexts == {ExampleContext, OtherContext}

\* the lists of n references to m dicts in which every dict is listed, and
\* the dicts are numbered in the order of their first entry
ReferenceLists(n, m) ==
    {ps \in [1..n -> 1..m] :
        /\ \A r \in 1..m : \E k \in 1..n : ps[k] = r
        /\ \A k \in 1..n : \A r \in 1..(ps[k] - 1) : \E j \in 1..(k - 1) : ps[j] = r}

\* the lists of up to n dicts of pool, each a separate object
SeparateLists(pool, n) ==
    {[posts |-> [k \in 1..Len(h) |-> k], heap |-> h] : h \in SeqUpTo(pool, n)}

\* the lists of up to n entries in which a dict of pool may be listed twice
\* or more
AliasedLists(pool, n) ==
    UNION {UNION {{[posts |-> ps, heap |-> h] :
                      ps \in ReferenceLists(len, m), h \in [1..m -> pool]} :
                  m \in (IF len = 0 THEN {0} ELSE 1..len)} :
           len \in 0..n}

\* the lists of up to n separate dicts: copies of Example, then copies of
\* Design
LongLists(n) ==
    UNION {{[posts |-> [k \in 1..(a + b) |-> k],
             heap |-> [k \in 1..(a + b) |-> IF k <= a THEN Example ELSE Design]] :
               b \in 0..(n - a)} :
           a \in 0..n}

\* the lists of lo to hi separate dicts, all copies of Video
CrowdLists(lo, hi) ==
    {[posts |-> [k \in 1..n |-> k], heap |-> [k \in 1..n |-> Video]] :
        n \in lo..hi}

\* the last value of time.time() that the model covers
Horizon == Now0 + MaxDrift * Hour

\* the state at the entry of generate_feed(call.posts, follows, ...), when
\* time.time() is now
Enter(call, follows, ctx, now) ==
    /\ posts = call.posts
    /\ heap = call.heap
    /\ supplied = call
    /\ user_follows = follows
    /\ interaction_history = ctx.interaction_history
    /\ trending_hashtags = ctx.trending_hashtags
    /\ format_preferences = ctx.format_preferences
    /\ clock = now
    /\ pc = "count"
    /\ author_frequency = <<>>
    /\ relevant_posts = <<>>
    /\ idx = 1
    /\ result = <<>>
    /\ error = "none"
    /\ scored = [r \in DOMAIN call.heap |-> Unscored]

\* calls on well-formed posts
Init ==
    \E call \in AliasedLists(WellFormedPosts, MaxPosts), follows \in FollowSets,
       ctx \in Contexts : Enter(call, follows, ctx, Now0)

\* calls on posts of which some lack a field
InitMalformed ==
    \E call \in SeparateLists(MalformedPosts, MaxBadPosts),
       follows \in FollowSets : Enter(call, follows, ExampleContext, Now0)

\* calls on long lists of posts of two authors, and calls on the lists of
\* more posts of one author that begin at the last time the model covers
InitLong ==
    \/ \E call \in LongLists(MaxLong), follows \in FollowSets :
           Enter(call, follows, ExampleContext, Now0)
    \/ \E call \in CrowdLists(MaxLong + 1, MaxCrowd), follows \in FollowSets :
           Enter(call, follows, ExampleContext, Horizon)

-----------------------------------------------------------------------------
(* The steps of a call *)

\* the call ends with exception e
Raise(e) == pc' = "error" /\ error' = e

\* line 80: author_frequency = Counter(post['author'] for post in posts)
CountAuthors ==
    /\ pc = "count"
    /\ IF \E k \in DOMAIN posts : "author" \notin DOMAIN heap[posts[k]]
       THEN Raise("KeyError") /\ UNCHANGED author_frequency
       ELSE /\ author_frequency' = Counter(posts, heap)
            /\ pc' = "filter"
            /\ UNCHANGED error
    /\ UNCHANGED <<posts, heap, user_follows, interaction_history,
                   trending_hashtags, format_preferences, clock,
                   relevant_posts, idx, result, supplied, scored>>

\* line 83: relevant_posts = [post for post in posts if ...]
FilterPosts ==
    /\ pc = "filter"
    /\ relevant_posts' = Filtered(posts, heap, user_follows)
    /\ idx' = 1
    /\ pc' = IF relevant_posts' = <<>> THEN "sort" ELSE "score"
    /\ UNCHANGED <<posts, heap, user_follows, interaction_history,
                   trending_hashtags, format_preferences, clock,
                   author_frequency, result, error, supplied, scored>>

\* the keys the five bonuses read with post[...], lines 40-62
BonusFields ==
    {"likes", "reposts", "comments", "quotes", "hashtags", "author",
     "content_format"}

\* lines 87-95: post['final_score'] = (...) * time_decay(post)
\*     * diversity_penalty(post), for the post r at idx
AssignScore(r, now, additive, decay, diversity) ==
    /\ scored' = [scored EXCEPT ![r] =
           [writes |-> @.writes + 1,
            additive |-> additive,
            time_decay |-> decay,
            diversity |-> diversity,
            current_time |-> now]]
    /\ heap' = Annotate(heap, relevant_posts, idx,
                        final_score(additive, decay, diversity))

\* lines 86-95: one iteration of the loop over relevant_posts.  The bonuses
\* are computed first, then time_decay reads the clock and the timestamp.
ScorePost ==
    /\ pc = "score"
    /\ idx <= Len(relevant_posts)
    /\ LET r == relevant_posts[idx]
           post == heap[r]
       IN  IF ~(BonusFields \subseteq DOMAIN post)
           THEN /\ Raise("KeyError")
                /\ UNCHANGED <<heap, clock, idx, scored>>
           ELSE \E now \in ClockReads(clock) :
                /\ clock' = now
                /\ IF "timestamp" \notin DOMAIN post
                   THEN /\ Raise("KeyError")
                        /\ UNCHANGED <<heap, idx, scored>>
                   ELSE /\ AssignScore(r, now, additive_part(post),
                                       time_decay(post, now),
                                       diversity_penalty(post, author_frequency))
                        /\ idx' = idx + 1
                        /\ pc' = IF idx = Len(relevant_posts)
                                 THEN "sort" ELSE "score"
                        /\ UNCHANGED error
    /\ UNCHANGED <<posts, user_follows, interaction_history, trending_hashtags,
                   format_preferences, author_frequency, relevant_posts,
                   result, supplied>>

\* line 98: return sorted(relevant_posts, key=..., reverse=True)
SortPosts ==
    /\ pc = "sort"
    /\ LET e == SortError(relevant_posts, heap)
       IN  IF e # "none"
           THEN Raise(e) /\ UNCHANGED result
           ELSE /\ result' = sorted_descending(relevant_posts, heap)
                /\ pc' = "done"
                /\ UNCHANGED error
    /\ UNCHANGED <<posts, heap, user_follows, interaction_history,
                   trending_hashtags, format_preferences, clock,
                   author_frequency, relevant_posts, idx, supplied, scored>>

Next == CountAuthors \/ FilterPosts \/ ScorePost \/ SortPosts

Spec == Init /\ [][Next]_vars

SpecMalformed == InitMalformed /\ [][Next]_vars

SpecLong == InitLong /\ [][Next]_vars

-----------------------------------------------------------------------------
(* Vocabulary of the properties *)

\* the dicts of the call
Dicts == DOMAIN supplied.heap

\* dict r is a post by a followed author
Retained(r) == supplied.heap[r]["author"] \in user_follows

\* the number of times dict r is listed in the supplied list
Occurrences(r) ==
    Cardinality({k \in DOMAIN supplied.posts : supplied.posts[k] = r})

\* the number of times dict r is listed in the list s
CountIn(s, r) == Cardinality({i \in DOMAIN s : s[i] = r})

\* final_score has been assigned to dict r
IsScored(r) == scored[r].writes >= 1

\* the number of entries of the supplied list by the author of dict r
PostsByAuthorOf(r) ==
    Cardinality({k \in DOMAIN supplied.posts :
        supplied.heap[supplied.posts[k]]["author"] = supplied.heap[r]["author"]})

\* the first position of dict r in the returned list
PositionOf(r) ==
    CHOOSE i \in DOMAIN result :
        result[i] = r /\ \A j \in 1..(i - 1) : result[j] # r

\* the float x is n / d to within 2^-30, for d a single digit
CloseTo(x, n, d) ==
    IF x.m = <<>> THEN n = 0
    ELSE LET a == BMulSmall(x.m, d)
             b == BShl(BFromInt(n), 0 - x.e)
             diff == IF BCmp(a, b) >= 0 THEN BSub(a, b) ELSE BSub(b, a)
         IN  BCmp(diff, BShl(<<d>>, 0 - x.e - 30)) <= 0

\* the float nearest to n / d
FExact(n, d) == FDiv(FFromInt(n), FFromInt(d))

\* the additive part as the formula of the scoring rule gives it, in tenths
ExpectedAdditive(p) ==
    LET I == IF p["author"] \in DOMAIN interaction_history
             THEN interaction_history[p["author"]] ELSE 0
        F == IF p["content_format"] \in DOMAIN format_preferences
             THEN format_preferences[p["content_format"]] ELSE 1
        T == {h \in trending_hashtags :
                 \E i \in DOMAIN p["hashtags"] : p["hashtags"][i] = h}
    IN  18 * p["likes"] + 14 * p["reposts"] + 30 * p["comments"]
            + 45 * p["quotes"] + 20 * p["engaged_by_followers"]
            + 30 * Cardinality(T) + 20 * I + 20 * F

\* max(100 - 2 f, 90): the diversity factor in hundredths
ExpectedDiversity(f) == IF 100 - 2 * f > 90 THEN 100 - 2 * f ELSE 90

InExampleContext ==
    /\ interaction_history = ExampleContext.interaction_history
    /\ trending_hashtags = ExampleContext.trending_hashtags
    /\ format_preferences = ExampleContext.format_preferences

\* the entries of list s whose dict is retained and has the score v
RECURSIVE WithScore(_, _)
WithScore(s, v) ==
    IF s = <<>> THEN <<>>
    ELSE (IF Retained(Head(s)) /\ Key(heap, Head(s)) = v
          THEN <<Head(s)>> ELSE <<>>) \o WithScore(Tail(s), v)

-----------------------------------------------------------------------------
(* C1 *)

\* C1: the list of retained posts, and with it the returned list, holds
\* exactly the supplied posts by followed authors, each as many times as the
\* supplied list holds it, and nothing else; a call with no posts or with
\* nobody followed returns the empty list and raises nothing.
C1_ExactlyFollowedPosts ==
    /\ pc \in {"score", "sort", "done"} =>
          \A r \in Dicts :
              CountIn(relevant_posts, r)
                  = IF Retained(r) THEN Occurrences(r) ELSE 0
    /\ pc = "done" =>
          /\ \A i \in DOMAIN result :
                /\ result[i] \in Dicts
                /\ Without(heap[result[i]], "final_score")
                      = supplied.heap[result[i]]
          /\ \A r \in Dicts :
                CountIn(result, r) = IF Retained(r) THEN Occurrences(r) ELSE 0
    /\ (supplied.posts = <<>> \/ user_follows = {}) =>
          /\ pc # "error"
          /\ pc = "done" => result = <<>>

\* a call has returned a followed post that was listed twice, twice, and
\* dropped a third post
C1_Witness ==
    /\ pc = "done"
    /\ Len(result) = 2
    /\ \E r, q \in Dicts : Occurrences(r) = 2 /\ Retained(r) /\ ~Retained(q)

-----------------------------------------------------------------------------
(* C2 *)

\* C2: the returned list is in descending order of final_score, and the
\* posts with one score are in the order they had in the supplied list.
C2_StableDescending ==
    pc = "done" =>
        /\ \A i, j \in DOMAIN result :
              i < j =>
                  LET a == Key(heap, result[i])
                      b == Key(heap, result[j])
                  IN  ~a.cx /\ ~b.cx /\ ~FLess(a, b)
        /\ \A i \in DOMAIN result :
              LET v == Key(heap, result[i])
              IN  WithScore(result, v) = WithScore(supplied.posts, v)

\* a returned list with a tie between two posts that differ and with a post
\* moved in front of one that preceded it in the supplied list
C2_Witness ==
    /\ pc = "done"
    /\ \E i, j \in DOMAIN result :
          /\ i < j
          /\ supplied.heap[result[i]] # supplied.heap[result[j]]
          /\ Key(heap, result[i]) = Key(heap, result[j])
    /\ \E k, l \in DOMAIN supplied.posts :
          /\ k < l
          /\ Retained(supplied.posts[k]) /\ Retained(supplied.posts[l])
          /\ PositionOf(supplied.posts[l]) < PositionOf(supplied.posts[k])

-----------------------------------------------------------------------------
(* C3 *)

\* C3: the additive part of every score is likes*1.8 + reposts*1.4 +
\* comments*3 + quotes*4.5 + engaged_by_followers*2 + 3 per trending hashtag
\* + 2*I + 2*F with the defaults I = 0 and F = 1, to the precision of float
\* arithmetic; the final score is that sum times the time decay times the
\* diversity factor; the sum of the example is the float 76.5.
C3_AdditivePart ==
    \A r \in Dicts :
        IsScored(r) =>
            /\ CloseTo(scored[r].additive, ExpectedAdditive(supplied.heap[r]), 10)
            /\ Key(heap, r).cx = scored[r].time_decay.cx
            /\ ~scored[r].time_decay.cx =>
                  Key(heap, r)
                      = Real(FMul(FMul(scored[r].additive, scored[r].time_decay),
                                  scored[r].diversity))
            /\ (supplied.heap[r] = Example /\ InExampleContext) =>
                  scored[r].additive = FExact(765, 10)

\* the example post has been scored in its context, and so has a post whose
\* author and format are keys of neither dict
C3_Witness ==
    /\ InExampleContext
    /\ \E r, q \in Dicts :
          /\ IsScored(r) /\ supplied.heap[r] = Example
          /\ scored[r].additive = FExact(765, 10)
          /\ IsScored(q)
          /\ supplied.heap[q]["author"] \notin DOMAIN interaction_history
          /\ supplied.heap[q]["content_format"] \notin DOMAIN format_preferences

-----------------------------------------------------------------------------
(* C4 *)

\* C4: a scored post whose author has no other post among the supplied posts
\* has the diversity factor 1.0.
C4_SingleAuthorUnpenalised ==
    \A r \in Dicts :
        (IsScored(r) /\ PostsByAuthorOf(r) = 1) => scored[r].diversity = FOne

-----------------------------------------------------------------------------
(* C5 *)

\* C5: a call on a list in which some post lacks a required field does not
\* return.
C5_MalformedPostAborts ==
    (\E r \in Dicts : ~(RequiredFields \subseteq DOMAIN supplied.heap[r]))
        => pc # "done"

-----------------------------------------------------------------------------
(* C6 *)

\* C6: a followed post dated in the future raises no error: it is scored
\* with a time decay that is a real number above 1, the sort succeeds, and
\* the post is in the returned list.
C6_FutureTimestampAccepted ==
    /\ error # "TypeError"
    /\ \A r \in Dicts :
          (IsScored(r) /\ scored[r].current_time < supplied.heap[r]["timestamp"])
              => /\ ~scored[r].time_decay.cx
                 /\ FLess(FOne, scored[r].time_decay)

-----------------------------------------------------------------------------
(* C7 *)

\* C7: of two scored posts that differ in their timestamps only, the more
\* recent one has a score at least as large, and is returned before the
\* other when its score is larger.
C7_MonotoneInRecency ==
    \A r, q \in Dicts :
        ( /\ IsScored(r) /\ IsScored(q)
          /\ pc \in {"sort", "done"}
          /\ Without(supplied.heap[r], "timestamp")
                = Without(supplied.heap[q], "timestamp")
          /\ supplied.heap[r]["timestamp"] > supplied.heap[q]["timestamp"] )
        => LET a == Key(heap, r)
               b == Key(heap, q)
           IN  /\ ~a.cx /\ ~b.cx
               /\ ~FLess(a, b)
               /\ (pc = "done" /\ FLess(b, a)) => PositionOf(r) < PositionOf(q)

-----------------------------------------------------------------------------
(* C8 *)

\* C8: the diversity factor of a scored post is max(1 - 0.02 * f, 0.9), to
\* the precision of float arithmetic, for f the number of supplied posts by
\* its author: never below 0.9, equal to 0.9 from f = 5 on, and not larger
\* for a larger f.
C8_DiversityFactor ==
    \A r \in Dicts :
        IsScored(r) =>
            LET f == PostsByAuthorOf(r)
                d == scored[r].diversity
            IN  /\ CloseTo(d, ExpectedDiversity(f), 100)
                /\ ~FLess(d, F0_9)
                /\ f >= 5 => d = F0_9
                /\ \A q \in Dicts :
                      (IsScored(q) /\ PostsByAuthorOf(q) >= f)
                          => ~FLess(d, scored[q].diversity)

\* a post of an author with more than fifty posts, for whom 1 - 0.02 * f is
\* negative, has been scored
C8_Witness ==
    \E r \in Dicts : IsScored(r) /\ PostsByAuthorOf(r) > 50

-----------------------------------------------------------------------------
(* C9 *)

\* C9: a call that returns has changed nothing but the final_score of the
\* posts it returns: the supplied list keeps its entries and their order,
\* every returned post keeps its other fields and has been assigned
\* final_score exactly once, and a post that is not returned is unchanged and
\* has never been assigned.
C9_WrittenExactlyOnce ==
    pc = "done" =>
        /\ posts = supplied.posts
        /\ \A r \in Dicts :
              IF CountIn(result, r) > 0
              THEN /\ scored[r].writes = 1
                   /\ "final_score" \in DOMAIN heap[r]
                   /\ Without(heap[r], "final_score") = supplied.heap[r]
              ELSE /\ scored[r].writes = 0
                   /\ heap[r] = supplied.heap[r]

-----------------------------------------------------------------------------
(* C10 *)

\* C10: for every retained post, the author's count over all supplied posts
\* is the number of retained posts by that author, so that the diversity
\* factor is the one a count over the retained posts gives.
C10_CountOverAllIsCountOverRetained ==
    pc \in {"score", "sort", "done"} =>
        \A i \in DOMAIN relevant_posts :
            LET r == relevant_posts[i]
                a == supplied.heap[r]["author"]
                n == Cardinality({j \in DOMAIN relevant_posts :
                        supplied.heap[relevant_posts[j]]["author"] = a})
            IN  /\ Get(author_frequency, a, 0) = n
                /\ IsScored(r) =>
                      CloseTo(scored[r].diversity, ExpectedDiversity(n), 100)

\* a returned list with two posts of one author, from a supplied list that
\* also held a post of an author who is not followed
C10_Witness ==
    /\ pc = "done"
    /\ \E i, j \in DOMAIN result :
          i # j /\ supplied.heap[result[i]]["author"]
                      = supplied.heap[result[j]]["author"]
    /\ \E r \in Dicts : ~Retained(r)

====
